---- MODULE Spec2Model ----
(***************************************************************************)
(* Verification model of the Macintosh 128K/512K/Plus/SE logic-board glue  *)
(* (src/src/mame/drivers/mac128.cpp): interrupt fan-in, overlay/memory     *)
(* router, VIA bus synchronisation, the floppy PWM speed decoder, the      *)
(* scanline timer and the mouse; and of the wavetable part of the YMF278B  *)
(* (src/unnamed/part_000): its register file, voice slots, envelopes and   *)
(* its stream update.                                                      *)
(*                                                                         *)
(* Every handler of the driver is one action.  The variables named m_...   *)
(* are the members of mac128_state; the remaining variables are either the *)
(* state of a collaborator the handler drives (the CPU's input lines, the  *)
(* CPU cycle counter, a floppy drive's target speed) or history variables  *)
(* that record what the last handler did.                                  *)
(***************************************************************************)
EXTENDS Integers, Sequences, FiniteSets, TLC

VARIABLES
    \* ---- interrupt arbiter (mac128.cpp:252) ----
    m_via_interrupt, m_scc_interrupt, m_scsi_interrupt, m_last_taken_interrupt,
    cpu_lines,      \* m_maincpu input lines currently in ASSERT_LINE state
    scsi_irq,       \* level of the SCSI controller's IRQ output (argument of scsi_irq_w)
    m_scsi_drq,
    \* ---- machine configuration, fixed by the machine_config (mac128.cpp:1082-1250) ----
    machine,        \* "mac128k", "mac512ke", "macplus" or "macse"
    floppy_type,    \* type() of the drive in m_floppy[0], m_floppy[1]
    \* ---- overlay / memory router (mac128.cpp:242, 264-265) ----
    m_overlay, m_ram_size, m_ram_mask,
    m_ram,          \* the words of m_ram_ptr[] at the cells the probed offsets can touch
    bus,            \* the last CPU access to the RAM window: [offset, data, mem_mask]
    \* ---- VIA port A / port B outputs ----
    m_screen_buffer, m_main_buffer, m_snd_vol, m_snd_enable,
    dac_gain,       \* m_dac output gain as <<numerator, denominator>>
    m_hdsel, m_drive_select, m_devsel,
    via_pa_out,     \* history: the value last given to the VIA's writepa handler, -1 for none
    \* ---- floppy drives ----
    m_cur_floppy,   \* 0 for nullptr, else 1 + index into m_floppy
    floppy_ss,      \* per drive: the side last given to ss_w
    floppy_rpm,     \* per drive: the speed last given to set_rpm
    rpm_changed,    \* history, per drive: set_rpm changed its speed in the current window
    \* ---- members machine_reset clears for the video timer and ADB ----
    m_irq_count, m_ca2_data, m_adb_irq_pending, m_scsiirq_enable,
    \* ---- floppy PWM speed decoder (mac128.cpp:234-235) ----
    m_pwm_count_total, m_pwm_count_1,
    m_pwm_current_rpm,  \* <<[0], [1]>>, in tenths of an rpm
    pwm_window_sum,     \* history: the pulse-length sums of the last two windows
    pwm_run,            \* history: length of the current run of equal window speeds
    pwm_committed,      \* history: the last pwm_push called set_rpm
    pwm_index,          \* history: internal_index of the last window, -1 for none
    pwm_dev,            \* pushes of the current window that left the base pulse length
    lfsr,               \* the hardware length counter the firmware's byte is loaded into
    \* ---- scanline timer (mac128.cpp:248-249, 445-484) ----
    screen_vpos,        \* m_screen->vpos()
    scan_param,         \* the param m_scan_timer will hand to mac_scanline
    hblank_armed,       \* m_hblank_timer is waiting for the end of the visible line
    via_pb6,            \* the level last given to m_via->write_pb6, -1 for none
    dac_out,            \* the byte last given to m_dac->write, -1 for none
    scan_fired,         \* history: the param handed to the last mac_scanline firing, -1 for none
    scan_trace,         \* history: the steps of the last mac_scanline firing, in order
    scan_pwm_data,      \* history: the byte the last firing gave to pwm_push, -1 for none
    scan_since_vblank,  \* history: firings since the last one that called vblank_irq
    vblank_seen,        \* history: some firing has called vblank_irq
    \* ---- mouse (mac128.cpp:245-246) ----
    m_mouse_bit, m_mouse_last, m_mouse_last_m, m_mouse_count,
    mouse_raw,          \* what m_mouse1->read() and m_mouse2->read() return
    scc_dcd,            \* the levels last given to m_scc->dcda_w / dcdb_w, -1 for none
    mouse_diff,         \* history, per axis: what the last poll added to m_mouse_count
    mouse_pulse,        \* history, per axis: the last poll emitted a quadrature pulse
    \* ---- VIA bus synchronisation ----
    total_cycles,       \* m_maincpu->total_cycles()
    via_entry,          \* history: total_cycles on entry to the last VIA access handler
    via_access,         \* history: total_cycles at its m_via->read / m_via->write
    via_prev_access,    \* history: the same for the VIA access before it
    \* ---- YMF278B wavetable part (src/unnamed/part_000) ----
    m_slots,            \* the 24 voice slots
    m_pcmregs,          \* the register file behind port C
    m_wavetblhdr, m_memmode, m_memadr,
    m_fm_l, m_fm_r, m_pcm_l, m_pcm_r,
    status_LD,          \* STATUS_LD is set and m_timer_ld is running
    wave_ram,           \* the bytes written to the RAM part of the wave memory
    cw_rewrites,        \* history: the <<reg, data>> the last write gave to nested C_w calls
    cw_reg, cw_data,    \* history: the arguments of the last write, -1 for none
    cw_before,          \* history: key-on, active flag and reverb latch of the addressed slot before it
    cw_count,           \* history: number of writes so far
    m_fm_pos,           \* the 0.24 fraction of FM samples owed to the output
    strm_samples,       \* history: output samples produced so far
    fm_extra,           \* history: extra FM clocks so far
    fm_trace,           \* history: the FM clocks of the last stream update, in order
    mix_trace,          \* history: what each voice added to the mix in the last update
    \* ---- YMF278B host interface ----
    m_port_AB, m_lastport, m_port_C,
    m_next_status_id,   \* the next status read made with NEW2 set returns the ID bit
    m_fm,               \* the FM engine: the registers written so far and STATUS_BUSY
    m_timer_busy,       \* cycles m_timer_busy was last started with, 0 when it is not running
    read_ret,           \* history: what the last read returned, -1 for none
    host_access,        \* history: <<offset, data>> of the last write or read, data -1 for a read
    host_count,         \* history: number of writes and reads through the host interface
    status_id_read,     \* history: a status read returned the ID bit since NEW2 last went 0 -> 1
    \* ---- history ----
    last_op         \* name of the handler that ran last

irqVars == <<m_via_interrupt, m_scc_interrupt, m_scsi_interrupt,
             m_last_taken_interrupt, cpu_lines, scsi_irq, m_scsi_drq>>

cfgVars == <<machine, floppy_type, m_ram_size, m_ram_mask>>

memVars == <<m_overlay, m_ram, bus>>

portVars == <<m_screen_buffer, m_main_buffer, m_snd_vol, m_snd_enable, dac_gain,
              m_hdsel, m_drive_select, m_devsel, via_pa_out>>

floppyVars == <<m_cur_floppy, floppy_ss, floppy_rpm, rpm_changed>>

miscVars == <<m_irq_count, m_ca2_data, m_adb_irq_pending, m_scsiirq_enable>>

pwmVars == <<m_pwm_count_total, m_pwm_count_1, m_pwm_current_rpm,
             pwm_window_sum, pwm_run, pwm_committed, pwm_index, pwm_dev, lfsr>>

syncVars == <<total_cycles, via_entry, via_access, via_prev_access>>

scanVars == <<screen_vpos, scan_param, hblank_armed, via_pb6, dac_out, scan_fired, scan_trace,
              scan_pwm_data,
              scan_since_vblank, vblank_seen>>

mouseVars == <<m_mouse_bit, m_mouse_last, m_mouse_last_m, m_mouse_count, mouse_raw,
               scc_dcd, mouse_diff, mouse_pulse>>

hostVars == <<m_port_AB, m_lastport, m_port_C, m_next_status_id, m_fm, m_timer_busy,
              read_ret, host_access, host_count, status_id_read>>

oplVars == <<hostVars, m_slots, m_pcmregs, m_wavetblhdr, m_memmode, m_memadr, m_fm_l, m_fm_r,
             m_pcm_l, m_pcm_r, status_LD, wave_ram, cw_rewrites, cw_reg, cw_data, cw_before,
             cw_count, m_fm_pos, strm_samples, fm_extra, fm_trace, mix_trace>>

strmVars == <<m_fm_pos, strm_samples, fm_extra, fm_trace, mix_trace>>

vars == <<irqVars, cfgVars, oplVars, scanVars, mouseVars, memVars, portVars, floppyVars, miscVars, pwmVars,
          syncVars, last_op>>

\* Line states of a WRITE_LINE_MEMBER callback: CLEAR_LINE = 0, ASSERT_LINE = 1.
LineStates == {0, 1}

\* The C operator & on non-negative integers.
RECURSIVE BitAnd(_, _)
BitAnd(a, b) ==
    IF a = 0 \/ b = 0 THEN 0
    ELSE (a % 2) * (b % 2) + 2 * BitAnd(a \div 2, b \div 2)

\* BIT(x, n) of emucore: bit n of x.
BIT(x, n) == (x \div (2 ^ n)) % 2

----------------------------------------------------------------------------
(* Interrupt arbiter *)

\* field_interrupts, lines 367-376: the level to take, -1 for none.
take_interrupt(scc, scsi, via) ==
    IF scc # 0 \/ scsi # 0 THEN 2
    ELSE IF via # 0 THEN 1
    ELSE -1

\* field_interrupts, lines 380-384: the CPU lines after the clear of the
\* recorded level.
lines_after_clear(lines, last) ==
    IF last > -1 THEN lines \ {last} ELSE lines

\* field_interrupts, lines 365-391, with the member values it reads.
field_interrupts(via, scc, scsi) ==
    LET take    == take_interrupt(scc, scsi, via)
        cleared == lines_after_clear(cpu_lines, m_last_taken_interrupt)
    IN  /\ cpu_lines' = IF take > -1 THEN cleared \cup {take} ELSE cleared
        /\ m_last_taken_interrupt' = take

set_scc_interrupt(state) ==
    /\ m_scc_interrupt' = state
    /\ field_interrupts(m_via_interrupt, state, m_scsi_interrupt)
    /\ last_op' = "set_scc_interrupt"
    /\ UNCHANGED <<m_via_interrupt, m_scsi_interrupt, scsi_irq, m_scsi_drq>>
    /\ UNCHANGED <<cfgVars, oplVars, scanVars, mouseVars, memVars, portVars, floppyVars, miscVars, pwmVars, syncVars>>

\* set_via_interrupt, reached from the VIA's irq_handler through mac_via_irq.
set_via_interrupt(value) ==
    /\ m_via_interrupt' = value
    /\ field_interrupts(value, m_scc_interrupt, m_scsi_interrupt)
    /\ last_op' = "set_via_interrupt"
    /\ UNCHANGED <<m_scc_interrupt, m_scsi_interrupt, scsi_irq, m_scsi_drq>>
    /\ UNCHANGED <<cfgVars, oplVars, scanVars, mouseVars, memVars, portVars, floppyVars, miscVars, pwmVars, syncVars>>

\* scsi_irq_w, lines 556-558: the handler body is empty.  The controller's
\* line takes the level it drives; no member changes.
scsi_irq_w(state) ==
    /\ scsi_irq' = state
    /\ last_op' = "scsi_irq_w"
    /\ UNCHANGED <<m_via_interrupt, m_scc_interrupt, m_scsi_interrupt,
                   m_last_taken_interrupt, cpu_lines, m_scsi_drq>>
    /\ UNCHANGED <<cfgVars, oplVars, scanVars, mouseVars, memVars, portVars, floppyVars, miscVars, pwmVars, syncVars>>

scsi_drq_w(state) ==
    /\ m_scsi_drq' = state
    /\ last_op' = "scsi_drq_w"
    /\ UNCHANGED <<m_via_interrupt, m_scc_interrupt, m_scsi_interrupt,
                   m_last_taken_interrupt, cpu_lines, scsi_irq>>
    /\ UNCHANGED <<cfgVars, oplVars, scanVars, mouseVars, memVars, portVars, floppyVars, miscVars, pwmVars, syncVars>>

----------------------------------------------------------------------------
(* Overlay / memory router *)

\* The boot ROM region is 0x100000 bytes, that is 0x80000 16-bit words
\* (ROM_REGION16_BE, line 1278); ram_r masks the word offset with 0x7ffff.
RomWords == 524288
RomMask  == 524287

\* The word the ROM image holds at word index i.  The image is data of the
\* machine; any fixed content that differs from word to word serves.
RomWord(i) == (i * 31 + 7) % 65536

\* RAM sizes in bytes the ram_device offers per machine: set_default_size and
\* set_extra_options of mac128k, mac512k/mac512ke, macplus and macse.
RamOptions(m) ==
    CASE m = "mac128k"  -> {131072}
      [] m = "mac512ke" -> {524288}
      [] m = "macplus"  -> {4194304, 1048576, 2097152, 2621440}
      [] m = "macse"    -> {4194304, 2097152, 2621440}

\* The address maps: macse_map routes the RAM window to ram_w_se and the VIA
\* to the _se port handlers, the other maps to ram_w.
IsSE == machine = "macse"

\* Word offsets into the RAM window 0x000000-0x3fffff the CPU is made to use.
ProbeOffsets == {0, 262144, 1310720, 2097151}

\* Data words and byte-lane masks of the probing writes.
WriteData == {42330}
MemMasks  == {65535, 65280, 255}

\* The cells of m_ram_ptr[] the probing accesses can touch or be compared with.
RamCells(size, mask) ==
    {BitAnd(k, mask) : k \in ProbeOffsets} \cup {k % size : k \in ProbeOffsets}

\* COMBINE_DATA(ptr): *ptr = (*ptr & ~mem_mask) | (data & mem_mask).
COMBINE_DATA(old, data, mem_mask) ==
    BitAnd(old, 65535 - mem_mask) + BitAnd(data, mem_mask)

\* The RAM cell a word offset selects (ram_r line 338, ram_w line 345, ram_w_se line 352).
ram_index(offset) == BitAnd(offset, m_ram_mask)

\* ram_r, lines 331-339: the word returned.
ram_r_data(offset) ==
    IF m_overlay # 0 THEN RomWord(BitAnd(offset, RomMask))
    ELSE m_ram[ram_index(offset)]

ram_r(offset) ==
    /\ bus' = [offset |-> offset, data |-> ram_r_data(offset), mem_mask |-> 65535]
    /\ last_op' = "ram_r"
    /\ UNCHANGED <<m_overlay, m_ram>>
    /\ UNCHANGED <<irqVars, cfgVars, oplVars, scanVars, mouseVars, portVars, floppyVars, miscVars, pwmVars, syncVars>>

\* A ram_w that stores whatever the overlay flag says.
ram_w_store_always(offset, data, mem_mask) ==
    [m_ram EXCEPT ![ram_index(offset)] = COMBINE_DATA(@, data, mem_mask)]

\* ram_w, lines 341-347: the RAM after the write.
ram_w_store(offset, data, mem_mask) ==
    IF m_overlay = 0
    THEN [m_ram EXCEPT ![ram_index(offset)] = COMBINE_DATA(@, data, mem_mask)]
    ELSE m_ram

ram_w(offset, data, mem_mask) ==
    /\ ~IsSE
    /\ m_ram' = ram_w_store(offset, data, mem_mask)
    /\ bus' = [offset |-> offset, data |-> data, mem_mask |-> mem_mask]
    /\ last_op' = "ram_w"
    /\ UNCHANGED m_overlay
    /\ UNCHANGED <<irqVars, cfgVars, oplVars, scanVars, mouseVars, portVars, floppyVars, miscVars, pwmVars, syncVars>>

\* A ram_w_se that leaves the overlay flag alone.
ram_w_se_overlay_kept == m_overlay

\* ram_w_se, lines 349-353: the overlay flag after the write.
ram_w_se_overlay == 0

ram_w_se(offset, data, mem_mask) ==
    /\ IsSE
    /\ m_overlay' = ram_w_se_overlay
    /\ m_ram' = [m_ram EXCEPT ![ram_index(offset)] = COMBINE_DATA(@, data, mem_mask)]
    /\ bus' = [offset |-> offset, data |-> data, mem_mask |-> mem_mask]
    /\ last_op' = "ram_w_se"
    /\ UNCHANGED <<irqVars, cfgVars, oplVars, scanVars, mouseVars, portVars, floppyVars, miscVars, pwmVars, syncVars>>

----------------------------------------------------------------------------
(* Floppy drive selection *)

Drives == {1, 2}

\* devsel_w lines 983-988, devsel_se_w lines 1004-1009: the drive a devsel
\* value names, 0 for nullptr.
devsel_target(devsel) ==
    IF devsel = 1 THEN 1 ELSE IF devsel = 2 THEN 2 ELSE 0

\* devsel_w lines 991-996, devsel_se_w lines 1017-1022: the selected drive is
\* given the head select, and the current PWM speed when it is an OAD34V.
select_ss(ss, cur, hdsel) ==
    IF cur # 0 THEN [ss EXCEPT ![cur] = hdsel] ELSE ss

select_rpm(rpm, cur) ==
    IF cur # 0 /\ floppy_type[cur] = "OAD34V"
    THEN [rpm EXCEPT ![cur] = m_pwm_current_rpm[1]]
    ELSE rpm

\* The drives whose speed a set_rpm call has changed in the current window.
rpm_changed_after(rpm) ==
    [d \in Drives |-> rpm_changed[d] \/ rpm[d] # floppy_rpm[d]]

devsel_w(devsel) ==
    /\ ~IsSE
    /\ m_cur_floppy' = devsel_target(devsel)
    /\ floppy_ss' = select_ss(floppy_ss, devsel_target(devsel), m_hdsel)
    /\ floppy_rpm' = select_rpm(floppy_rpm, devsel_target(devsel))
    /\ rpm_changed' = rpm_changed_after(select_rpm(floppy_rpm, devsel_target(devsel)))
    /\ last_op' = "devsel_w"
    /\ UNCHANGED <<irqVars, cfgVars, oplVars, scanVars, mouseVars, memVars, portVars, miscVars, pwmVars, syncVars>>

\* devsel_se_w lines 1002-1014: the drive selected under a given m_drive_select.
devsel_se_target(devsel, drive_select) ==
    IF drive_select = 0 THEN devsel_target(devsel) ELSE 0

devsel_se_w(devsel) ==
    /\ IsSE
    /\ m_cur_floppy' = devsel_se_target(devsel, m_drive_select)
    /\ floppy_ss' = select_ss(floppy_ss, devsel_se_target(devsel, m_drive_select), m_hdsel)
    /\ floppy_rpm' = select_rpm(floppy_rpm, devsel_se_target(devsel, m_drive_select))
    /\ rpm_changed' = rpm_changed_after(select_rpm(floppy_rpm,
                                     devsel_se_target(devsel, m_drive_select)))
    /\ m_devsel' = devsel
    /\ last_op' = "devsel_se_w"
    /\ UNCHANGED <<m_screen_buffer, m_main_buffer, m_snd_vol, m_snd_enable, dac_gain,
                   m_hdsel, m_drive_select, via_pa_out>>
    /\ UNCHANGED <<irqVars, cfgVars, oplVars, scanVars, mouseVars, memVars, miscVars, pwmVars, syncVars>>

----------------------------------------------------------------------------
(* VIA port A outputs *)

\* update_volume, lines 423-438: the gain given to m_dac, 8.0 / (m_snd_vol + 1).
update_volume(snd_enable, snd_vol) ==
    IF ~snd_enable THEN <<0, 1>> ELSE <<8, snd_vol + 1>>

\* mac_via_out_a lines 796-804, mac_via_out_a_se lines 826-834: a changed head
\* select goes to the current drive.
hdsel_ss(ss, cur, hdsel) ==
    IF hdsel # m_hdsel /\ cur # 0 THEN [ss EXCEPT ![cur] = hdsel] ELSE ss

\* mac_via_out_a lines 810-816: the overlay flag is bit 4 of the port value.
via_out_a_overlay(data) ==
    IF BIT(data, 4) # m_overlay THEN BIT(data, 4) ELSE m_overlay

mac_via_out_a(data) ==
    /\ ~IsSE
    /\ m_screen_buffer' = BIT(data, 6)
    /\ floppy_ss' = hdsel_ss(floppy_ss, m_cur_floppy, BIT(data, 5))
    /\ m_hdsel' = BIT(data, 5)
    /\ m_main_buffer' = (BIT(data, 3) = 1)
    /\ m_snd_vol' = data % 8
    /\ dac_gain' = update_volume(m_snd_enable, data % 8)
    /\ m_overlay' = via_out_a_overlay(data)
    /\ via_pa_out' = data
    /\ last_op' = "mac_via_out_a"
    /\ UNCHANGED <<m_snd_enable, m_drive_select, m_devsel, m_cur_floppy, floppy_rpm,
                   rpm_changed, m_ram, bus>>
    /\ UNCHANGED <<irqVars, cfgVars, oplVars, scanVars, mouseVars, miscVars, pwmVars, syncVars>>

\* mac_via_out_a_se, lines 819-845.  A changed drive select (bit 4) ends in
\* devsel_se_w(m_devsel), which reselects the drive under the new value.
mac_via_out_a_se(data) ==
    LET hdsel  == BIT(data, 5)
        ss1    == hdsel_ss(floppy_ss, m_cur_floppy, hdsel)
        resel  == m_drive_select # BIT(data, 4)
        cur    == devsel_se_target(m_devsel, BIT(data, 4))
    IN  /\ IsSE
        /\ m_screen_buffer' = BIT(data, 6)
        /\ m_hdsel' = hdsel
        /\ m_snd_vol' = data % 8
        /\ dac_gain' = update_volume(m_snd_enable, data % 8)
        /\ m_drive_select' = BIT(data, 4)
        /\ via_pa_out' = data
        /\ m_cur_floppy' = IF resel THEN cur ELSE m_cur_floppy
        /\ floppy_ss' = IF resel THEN select_ss(ss1, cur, hdsel) ELSE ss1
        /\ floppy_rpm' = IF resel THEN select_rpm(floppy_rpm, cur) ELSE floppy_rpm
        /\ rpm_changed' = IF resel THEN rpm_changed_after(select_rpm(floppy_rpm, cur))
                          ELSE rpm_changed
        /\ last_op' = "mac_via_out_a_se"
        /\ UNCHANGED <<m_main_buffer, m_snd_enable, m_devsel>>
        /\ UNCHANGED <<irqVars, cfgVars, oplVars, scanVars, mouseVars, memVars, miscVars, pwmVars, syncVars>>

----------------------------------------------------------------------------
(* Floppy PWM speed decoder *)

\* pwm_push, lines 504-513: the LFSR de-scrambling table.
value_to_length ==
    <<  0,  1, 59,  2, 60, 40, 54,  3,
       61, 32, 49, 41, 55, 19, 35,  4,
       62, 52, 30, 33, 50, 12, 14, 42,
       56, 16, 27, 20, 36, 23, 44,  5,
       63, 58, 39, 53, 31, 48, 18, 34,
       51, 29, 11, 13, 15, 26, 22, 43,
       57, 38, 47, 17, 28, 10, 25, 21,
       37, 46,  9, 24, 45,  8,  7,  6 >>

\* value_to_length[data & 0x3f], line 515.
pulse_length(data) == value_to_length[(data % 64) + 1]

\* The length counter of lines 500-502 with its taps on bits 0 and 2.
lfsr_next_taps_0_2(v) == (v \div 2) + 32 * ((v + (v \div 4)) % 2)

\* One clock of the length counter, lines 500-502: a 6-bit LFSR shifting
\* right, the exclusive or of bits 0 and 1 inserted on bit 5.
lfsr_next(v) == (v \div 2) + 32 * ((v + (v \div 2)) % 2)

\* The value at which the length is reached, line 502.
LfsrTarget == 32

\* The counter before the firmware has written a value.
lfsr_idle == [loaded |-> -1, value |-> 0, steps |-> 0]

\* The counter has been clocked to the target.
lfsr_hit == lfsr.steps >= 1 /\ lfsr.value = LfsrTarget

\* Clocks followed after a load; the period of the counter is 63.
MaxLfsrSteps == 63

\* The firmware loads the counter with the six low bits of its byte.
lfsr_load(v) ==
    /\ lfsr.loaded = -1
    /\ lfsr' = [loaded |-> v % 64, value |-> v % 64, steps |-> 0]
    /\ last_op' = "lfsr_load"
    /\ UNCHANGED <<m_pwm_count_total, m_pwm_count_1, m_pwm_current_rpm,
                   pwm_window_sum, pwm_run, pwm_committed, pwm_index, pwm_dev>>
    /\ UNCHANGED <<irqVars, cfgVars, oplVars, scanVars, mouseVars, memVars, portVars, floppyVars, miscVars, syncVars>>

\* The counter is clocked until the length is reached.
lfsr_clock ==
    /\ lfsr.loaded # -1
    /\ ~lfsr_hit
    /\ lfsr.steps < MaxLfsrSteps
    /\ lfsr' = [lfsr EXCEPT !.value = lfsr_next(lfsr.value), !.steps = lfsr.steps + 1]
    /\ last_op' = "lfsr_clock"
    /\ UNCHANGED <<m_pwm_count_total, m_pwm_count_1, m_pwm_current_rpm,
                   pwm_window_sum, pwm_run, pwm_committed, pwm_index, pwm_dev>>
    /\ UNCHANGED <<irqVars, cfgVars, oplVars, scanVars, mouseVars, memVars, portVars, floppyVars, miscVars, syncVars>>

\* An index computed without the two clamps.
internal_index_unclamped(count_1, count_total) ==
    (count_1 \div (count_total \div 10)) - 11

\* pwm_push, lines 526-530: the clamped index of a window.
internal_index(count_1, count_total) ==
    LET raw == (count_1 \div (count_total \div 10)) - 11
    IN  IF raw < 0 THEN 0 ELSE IF raw > 399 THEN 399 ELSE raw

\* pwm_push, lines 532-533: duty_cycle = index / 419.0,
\* rpm = (duty_cycle - 0.094) * (702.5 - 342.5) / (0.91 - 0.094) + 342.5,
\* here in tenths of an rpm, rounded down:
\* 10 * rpm = 3425 + (1000 * index - 39386) * 75 / 7123.
rpm_of_index(index) == 3425 + (((1000 * index - 39386) * 75) \div 7123)

\* A commit test that drops the "differs from the one before" half.
commit_test_no_debounce(rpm) == rpm = m_pwm_current_rpm[1]

\* A commit test that fires on every change of the computed speed.
commit_test_on_change(rpm) == rpm # m_pwm_current_rpm[1]

\* pwm_push, line 538: the two-reading test.
commit_test(rpm) ==
    rpm = m_pwm_current_rpm[1] /\ m_pwm_current_rpm[1] # m_pwm_current_rpm[0]

\* pwm_push, lines 538-547: whether the window's last push calls set_rpm.
set_rpm_called(rpm) ==
    commit_test(rpm) /\ m_cur_floppy # 0 /\ floppy_type[m_cur_floppy] = "OAD34V"

\* pwm_push, lines 538-547: the drive speeds after the window's commit step.
commit_rpm(rpm) ==
    IF set_rpm_called(rpm)
    THEN [floppy_rpm EXCEPT ![m_cur_floppy] = rpm]
    ELSE floppy_rpm

\* Bytes the sound buffer is made to feed: two that map to the same base
\* pulse length (one of them with bits 6-7 set), and two longer pulses.
PwmBaseData == {3, 67}
PwmDevData  == {7, 21}

\* Bytes fed for a whole window: the shortest pulse (length 0) and the
\* longest (length 63), which take the index to its two clamps.
PwmFullData == {0, 32}

\* The bytes fed while drives are selected and deselected: the base pulse
\* and one longer pulse.
PwmSelData == {3, 21}

\* A window begun with a byte of PwmFullData is fed that byte to its end,
\* and no other window is fed one.
full_window(data) ==
    IF data \in PwmFullData
    THEN m_pwm_count_1 = m_pwm_count_total * pulse_length(data)
    ELSE m_pwm_count_total = 0 \/ m_pwm_count_1 \notin {0, 63 * m_pwm_count_total}

\* At most this many pulses of a window are taken from PwmDevData.
MaxDev == 1

\* The history counts runs of equal window speeds up to this length.
MaxRun == 3

\* pwm_push, lines 486-554: what one call does to the decoder and the drives.
pwm_push_body(data) ==
    LET count_1 == m_pwm_count_1 + pulse_length(data)
        total   == m_pwm_count_total + 1
        rpm     == rpm_of_index(internal_index(count_1, total))
    IN  /\ IF total = 100
           THEN /\ floppy_rpm' = commit_rpm(rpm)
                /\ m_pwm_current_rpm' = [i \in {0, 1} |->
                                            IF i = 0 THEN m_pwm_current_rpm[1] ELSE rpm]
                /\ m_pwm_count_1' = 0
                /\ m_pwm_count_total' = 0
                /\ pwm_window_sum' = [i \in {0, 1} |->
                                         IF i = 0 THEN pwm_window_sum[1] ELSE count_1]
                /\ pwm_run' = IF pwm_window_sum[1] >= 0
                                 /\ rpm_of_index(internal_index(pwm_window_sum[1], 100)) = rpm
                              THEN (IF pwm_run < MaxRun THEN pwm_run + 1 ELSE MaxRun)
                              ELSE 1
                /\ pwm_committed' = set_rpm_called(rpm)
                /\ pwm_index' = internal_index(count_1, total)
                /\ rpm_changed' = [d \in Drives |-> FALSE]
                /\ pwm_dev' = 0
           ELSE /\ m_pwm_count_1' = count_1
                /\ m_pwm_count_total' = total
                /\ pwm_committed' = FALSE
                /\ pwm_dev' = IF data \in PwmDevData THEN pwm_dev + 1 ELSE pwm_dev
                /\ UNCHANGED <<floppy_rpm, rpm_changed, m_pwm_current_rpm,
                               pwm_window_sum, pwm_run, pwm_index>>
        /\ UNCHANGED <<m_cur_floppy, floppy_ss, lfsr>>

\* pwm_push called with a byte of the explored sets.
pwm_push(data) ==
    /\ (data \in PwmDevData) => (pwm_dev < MaxDev)
    /\ full_window(data)
    /\ pwm_push_body(data)
    /\ last_op' = "pwm_push"
    /\ UNCHANGED <<irqVars, cfgVars, oplVars, scanVars, mouseVars, memVars, portVars, miscVars, syncVars>>

----------------------------------------------------------------------------
(* VIA bus synchronisation *)

\* A sync that rounds the VPA cycle down instead of up.
m68k_start_cycle_floor(cur_cycle) == ((cur_cycle + 2) \div 10) * 10

\* via_sync, lines 701-704: the CPU cycle of the E clock edge the access
\* is synchronised on.
m68k_start_cycle(cur_cycle) ==
    LET vpa_cycle       == cur_cycle + 2
        via_start_cycle == (vpa_cycle + 9) \div 10
    IN  via_start_cycle * 10

\* m_maincpu->adjust_icount(delta), lines 705 and 710: delta is added to the
\* remaining-cycle budget, so total_cycles() moves by -delta.
adjust_icount(cycles, delta) == cycles - delta

\* via_sync, lines 683-706: total_cycles() on return.
via_sync(cur_cycle) == adjust_icount(cur_cycle, cur_cycle - m68k_start_cycle(cur_cycle))

\* via_sync_end, lines 708-711: total_cycles() on return.
via_sync_end(cycles) == adjust_icount(cycles, -4)

\* CPU cycle counts and instruction lengths explored.
MaxCycles == 60
MaxStep   == 7

\* mac_via_r, lines 713-726: via_sync, the VIA read, via_sync_end.
mac_via_r ==
    /\ total_cycles < MaxCycles
    /\ via_entry' = total_cycles
    /\ via_access' = via_sync(total_cycles)
    /\ via_prev_access' = via_access
    /\ total_cycles' = via_sync_end(via_sync(total_cycles))
    /\ last_op' = "mac_via_r"
    /\ UNCHANGED <<irqVars, cfgVars, oplVars, scanVars, mouseVars, memVars, portVars, floppyVars, miscVars, pwmVars>>

\* A write path that skips the synchronisation.
via_w_sync_skipped(cur_cycle) == cur_cycle

\* mac_via_w, line 733: the write path's call of via_sync.
via_w_sync(cur_cycle) == via_sync(cur_cycle)

\* mac_via_w, lines 728-738: via_sync, the VIA write, via_sync_end.
mac_via_w ==
    /\ total_cycles < MaxCycles
    /\ via_entry' = total_cycles
    /\ via_access' = via_w_sync(total_cycles)
    /\ via_prev_access' = via_access
    /\ total_cycles' = via_sync_end(via_w_sync(total_cycles))
    /\ last_op' = "mac_via_w"
    /\ UNCHANGED <<irqVars, cfgVars, oplVars, scanVars, mouseVars, memVars, portVars, floppyVars, miscVars, pwmVars>>

\* The CPU executes n cycles of other instructions before the next access.
cpu_execute(n) ==
    /\ total_cycles < MaxCycles
    /\ total_cycles' = total_cycles + n
    /\ last_op' = "cpu_execute"
    /\ UNCHANGED <<via_entry, via_access, via_prev_access>>
    /\ UNCHANGED <<irqVars, cfgVars, oplVars, scanVars, mouseVars, memVars, portVars, floppyVars, miscVars, pwmVars>>

----------------------------------------------------------------------------
(* Mouse quadrature *)

\* The two axes, as the indexes of m_mouse_count[]: 0 is X, 1 is Y.
Axes == {0, 1}

\* A value stored in an int16_t member.
int16(x) == ((x + 32768) % 65536) - 32768

\* A difference taken without the wrap check.
wrap_diff_unchecked(new_m, last_m) == new_m - last_m

\* mouse_callback, lines 884-890 and 900-906: the difference of two raw
\* samples after the wrap check.
wrap_diff(new_m, last_m) ==
    LET diff == new_m - last_m
    IN  IF diff > 128 THEN diff - 256
        ELSE IF diff < -128 THEN diff + 256
        ELSE diff

\* mouse_callback, lines 882-894 and 898-910: what a poll adds to an axis.
mouse_delta(new_m, last_m) ==
    IF new_m # last_m THEN wrap_diff(new_m, last_m) ELSE 0

\* A drain step that takes two units at a time.
mouse_drain_double(count) ==
    IF count < 0 THEN count + 2 ELSE IF count # 0 THEN count - 2 ELSE count

\* mouse_callback, lines 914-934: the remainder after the drain step.
mouse_drain(count) ==
    IF count < 0 THEN count + 1 ELSE IF count # 0 THEN count - 1 ELSE count

\* mouse_callback, lines 913-934: x_needs_update and y_needs_update.
needs_update(axis, count) ==
    IF count < 0 THEN (IF axis = 0 THEN -1 ELSE 1)
    ELSE IF count # 0 THEN (IF axis = 0 THEN 1 ELSE -1)
    ELSE 0

\* scc_mouse_irq, lines 640-645 and 653-658: the new m_mouse_bit of an axis
\* whose update is dir.
pulse_bit(dir, last) ==
    IF dir < 0 THEN (IF last # 0 THEN 0 ELSE 1) ELSE (IF last # 0 THEN 1 ELSE 0)

\* mouse_callback, lines 878-941, with scc_mouse_irq, lines 632-661.
mouse_callback_body ==
    LET delta == [a \in Axes |-> mouse_delta(mouse_raw[a], m_mouse_last_m[a])]
        count == [a \in Axes |-> int16(m_mouse_count[a] + delta[a])]
        upd   == [a \in Axes |-> needs_update(a, count[a])]
    IN  /\ m_mouse_last_m' = [a \in Axes |-> mouse_raw[a]]
        /\ m_mouse_count' = [a \in Axes |-> int16(mouse_drain(count[a]))]
        /\ scc_dcd' = [a \in Axes |->
                          IF upd[a] # 0 THEN (IF m_mouse_last[a] # 0 THEN 1 ELSE 0)
                          ELSE scc_dcd[a]]
        /\ m_mouse_bit' = [a \in Axes |->
                              IF upd[a] # 0 THEN pulse_bit(upd[a], m_mouse_last[a])
                              ELSE m_mouse_bit[a]]
        /\ m_mouse_last' = [a \in Axes |->
                               IF upd[a] # 0 THEN 1 - m_mouse_last[a] ELSE m_mouse_last[a]]
        /\ mouse_diff' = delta
        /\ mouse_pulse' = [a \in Axes |-> upd[a] # 0]
        /\ UNCHANGED mouse_raw

\* One poll of the mouse.
mouse_callback ==
    /\ ~IsSE
    /\ mouse_callback_body
    /\ last_op' = "mouse_callback"
    /\ UNCHANGED <<irqVars, cfgVars, oplVars, scanVars, memVars, portVars, floppyVars, miscVars,
                   pwmVars, syncVars>>

\* Raw 8-bit samples the MOUSE1 and MOUSE2 ports are made to return.
RawSamplesX == {0, 128, 129, 255}
RawSamplesY == {0, 3, 255}
RawSamples(axis) == IF axis = 0 THEN RawSamplesX ELSE RawSamplesY

\* The hand moves the mouse again only when the axis has at most this much
\* of its remainder left.
MaxBacklog == 1

\* The mouse is moved along one axis: the port of that axis returns s.
mouse_move(axis, s) ==
    /\ ~IsSE
    /\ s # mouse_raw[axis]
    /\ m_mouse_last_m[axis] = mouse_raw[axis]
    /\ m_mouse_count[axis] <= MaxBacklog /\ m_mouse_count[axis] >= -MaxBacklog
    /\ mouse_raw' = [mouse_raw EXCEPT ![axis] = s]
    /\ last_op' = "mouse_move"
    /\ UNCHANGED <<m_mouse_bit, m_mouse_last, m_mouse_last_m, m_mouse_count, scc_dcd,
                   mouse_diff, mouse_pulse>>
    /\ UNCHANGED <<irqVars, cfgVars, oplVars, scanVars, memVars, portVars, floppyVars, miscVars,
                   pwmVars, syncVars>>

----------------------------------------------------------------------------
(* Scanline timer *)

\* Video parameters, lines 116-119.
MAC_H_VIS == 512
MAC_V_VIS == 342
MAC_V_TOTAL == 370

\* Sound buffer locations, lines 122-123, in words from the end of RAM.
MAC_MAIN_SND_BUF_OFFSET == 384
MAC_ALT_SND_BUF_OFFSET == 12160

\* m_screen->height(): set_raw gives the screen MAC_V_TOTAL lines (line 1091).
screen_height == MAC_V_TOTAL

\* mac_scanline, lines 467-474: the word index of mac_snd_buf_ptr in m_ram_ptr.
mac_snd_buf_ptr(main_buffer) ==
    m_ram_size - (IF main_buffer THEN MAC_MAIN_SND_BUF_OFFSET ELSE MAC_ALT_SND_BUF_OFFSET)

\* The RAM words mac_scanline can read: both sound buffers, one word per
\* scanline param.
SndCells(size) ==
    {size - MAC_MAIN_SND_BUF_OFFSET + i : i \in 0..MAC_V_TOTAL}
        \cup {size - MAC_ALT_SND_BUF_OFFSET + i : i \in 0..MAC_V_TOTAL}

\* What the CPU has left in a sound buffer word: a sample in the high byte,
\* a disk speed byte of the base pulse length in the low byte.
SndWord(c) == ((c * 7 + 1) % 256) * 256 + (IF c % 2 = 0 THEN 3 ELSE 67)

\* vblank_irq, lines 413-420.
vblank_irq_count(irq_count) == IF irq_count + 1 = 60 THEN 0 ELSE irq_count + 1

vblank_irq_ca2(irq_count, ca2_data) ==
    IF irq_count + 1 = 60 THEN 1 - ca2_data ELSE ca2_data

\* A vblank_irq called on the last visible line.
vblank_due_visible(scanline) == scanline = MAC_V_VIS - 1

\* mac_scanline, line 450: the firing that calls vblank_irq.
vblank_due(scanline) == scanline = MAC_V_VIS

\* mac_scanline, line 456: the beam is in the display.
beam_visible(scanline) == scanline < MAC_V_VIS

\* mac_scanline, line 462: the firing that polls the mouse.
mouse_due(scanline) == scanline % 10 = 0 /\ ~IsSE

\* An audio pull that feeds the disk speed byte before the sample.
audio_steps_swapped == <<"pwm_push", "m_dac->write">>

\* mac_scanline, lines 476-477: the sample goes to the DAC, then the disk
\* speed byte to pwm_push.
audio_steps == <<"m_dac->write", "pwm_push">>

\* mac_scanline, lines 445-479: the calls of one firing, in the order made.
scanline_steps(scanline) ==
    (IF vblank_due(scanline)
        THEN (IF IsSE THEN <<"adb_vblank">> ELSE <<>>) \o <<"vblank_irq">> ELSE <<>>)
    \o (IF beam_visible(scanline) THEN <<"write_pb6", "m_hblank_timer->adjust">> ELSE <<>>)
    \o (IF mouse_due(scanline) THEN <<"mouse_callback">> ELSE <<>>)
    \o audio_steps
    \o <<"m_scan_timer->adjust">>

\* mac_scanline, line 478: the param of the next firing.
next_scanline(scanline) == (scanline + 1) % screen_height

\* Frames followed: the timer is followed until m_irq_count reaches this.
MaxFrames == 2

\* mac_scanline, lines 445-479.
mac_scanline ==
    LET scanline == scan_param
        word     == m_ram[mac_snd_buf_ptr(m_main_buffer) + scanline]
    IN  /\ scan_param >= 0
        /\ ~hblank_armed
        /\ m_irq_count < MaxFrames
        /\ m_irq_count' = IF vblank_due(scanline)
                          THEN vblank_irq_count(m_irq_count) ELSE m_irq_count
        /\ m_ca2_data' = IF vblank_due(scanline)
                         THEN vblank_irq_ca2(m_irq_count, m_ca2_data) ELSE m_ca2_data
        /\ via_pb6' = IF beam_visible(scanline) THEN 1 ELSE via_pb6
        /\ hblank_armed' = beam_visible(scanline)
        /\ IF mouse_due(scanline) THEN mouse_callback_body ELSE UNCHANGED mouseVars
        /\ dac_out' = word \div 256
        /\ pwm_push_body(word % 256)
        /\ scan_pwm_data' = word % 256
        /\ scan_param' = next_scanline(scanline)
        /\ screen_vpos' = scanline % screen_height
        /\ scan_fired' = scanline
        /\ scan_trace' = scanline_steps(scanline)
        /\ scan_since_vblank' = IF vblank_due(scanline) THEN 0
                                ELSE IF scan_since_vblank < MAC_V_TOTAL
                                     THEN scan_since_vblank + 1 ELSE MAC_V_TOTAL
        /\ vblank_seen' = (vblank_seen \/ vblank_due(scanline))
        /\ last_op' = "mac_scanline"
        /\ UNCHANGED <<m_adb_irq_pending, m_scsiirq_enable>>
        /\ UNCHANGED <<irqVars, cfgVars, oplVars, memVars, portVars, syncVars>>

\* mac_hblank, lines 481-484.
mac_hblank ==
    /\ hblank_armed
    /\ via_pb6' = 0
    /\ hblank_armed' = FALSE
    /\ last_op' = "mac_hblank"
    /\ UNCHANGED <<screen_vpos, scan_param, dac_out, scan_fired, scan_trace, scan_pwm_data,
                   scan_since_vblank, vblank_seen>>
    /\ UNCHANGED <<irqVars, cfgVars, oplVars, mouseVars, memVars, portVars, floppyVars, miscVars,
                   pwmVars, syncVars>>

----------------------------------------------------------------------------
(* Reset *)

\* m_pwm_current_rpm after reset, 302.5 rpm ("Speed for 0% duty cycle").
ResetRpm == 3025

\* machine_reset, lines 305-329.  m_screen->vblank() holds on the lines after
\* the visible ones.
machine_reset ==
    /\ m_last_taken_interrupt' = 0
    /\ m_overlay' = 1
    /\ m_screen_buffer' = 1
    /\ m_snd_enable' = FALSE
    /\ m_main_buffer' = TRUE
    /\ m_snd_vol' = 3
    /\ m_irq_count' = 0
    /\ m_ca2_data' = 0
    /\ m_adb_irq_pending' = 0
    /\ m_drive_select' = 0
    /\ m_scsiirq_enable' = 0
    /\ m_pwm_count_total' = 0
    /\ m_pwm_count_1' = 0
    /\ m_pwm_current_rpm' = [i \in {0, 1} |-> ResetRpm]
    /\ m_scsi_drq' = 0
    /\ pwm_window_sum' = [i \in {0, 1} |-> -1]
    /\ pwm_run' = 0
    /\ pwm_committed' = FALSE
    /\ pwm_index' = -1
    /\ rpm_changed' = [d \in Drives |-> FALSE]
    /\ pwm_dev' = 0
    /\ UNCHANGED lfsr
    /\ last_op' = "machine_reset"
    /\ UNCHANGED <<m_via_interrupt, m_scc_interrupt, m_scsi_interrupt, cpu_lines, scsi_irq>>
    /\ UNCHANGED <<m_ram, bus, dac_gain, m_hdsel, m_devsel, via_pa_out>>
    /\ scan_param' = screen_vpos + 1
    /\ via_pb6' = IF screen_vpos >= MAC_V_VIS THEN 0 ELSE via_pb6
    /\ UNCHANGED <<screen_vpos, hblank_armed, dac_out, scan_fired, scan_trace, scan_pwm_data,
                   scan_since_vblank, vblank_seen>>
    /\ UNCHANGED <<m_cur_floppy, floppy_ss, floppy_rpm>>
    /\ UNCHANGED <<cfgVars, oplVars, mouseVars, syncVars>>

----------------------------------------------------------------------------
(* YMF278B (OPL4) wavetable part: src/unnamed/part_000                      *)

\* The 24 voice slots of m_slots[] and the 256 registers of m_pcmregs[].
SlotNums == 0 .. 23

PcmRegs == 0 .. 255

\* A uint32_t as <<high 16 bits, low 16 bits>>: the envelope works at 256U<<23,
\* which is 2^31, and in the complement of small numbers.
u32(n) == <<n \div 65536, n % 65536>>

add32(a, b) ==
    LET lo == a[2] + b[2]
        hi == a[1] + b[1] + (lo \div 65536)
    IN  <<hi % 65536, lo % 65536>>

\* The C operator ~ on a uint32_t.
not32(a) == <<65535 - a[1], 65535 - a[2]>>

gt32(a, b) == a[1] > b[1] \/ (a[1] = b[1] /\ a[2] > b[2])

\* 256U<<23, and the (n*8)<<23 of the decay level and the pseudo-reverb threshold.
EnvOff == <<32768, 0>>

EnvLevel(n) == <<n * 1024, 0>>

\* (256U<<23) / d for a divisor between 1 and 2^30.
EnvDiv(d) == 2 * (1073741824 \div d) + (2 * (1073741824 % d)) \div d

RECURSIVE Pow2(_)
Pow2(n) == IF n = 0 THEN 1 ELSE 2 * Pow2(n - 1)

\* precompute_rate_tables: the decay and the attack table.
m_lut_dr(i) ==
    IF i <= 3 THEN 0
    ELSE IF i >= 60 THEN 15 * 16
    ELSE (15 * Pow2(21 - (i \div 4))) \div (4 + (i % 4))

m_lut_ar(i) ==
    IF i <= 3 \/ i = 63 THEN 0
    ELSE IF i >= 60 THEN 17
    ELSE (67 * Pow2(15 - (i \div 4))) \div (4 + (i % 4))

\* The sign extension "if (oct & 8) oct |= -8" of the four-bit octave.
signed_octave(slot) == IF slot.octave >= 8 THEN slot.octave - 16 ELSE slot.octave

compute_rate(slot, val) ==
    IF val = 0 THEN 0
    ELSE IF val = 15 THEN 63
    ELSE LET res == IF slot.RC # 15
                    THEN (signed_octave(slot) + slot.RC) * 2
                         + (IF (slot.F_NUMBER \div 512) % 2 = 1 THEN 1 ELSE 0) + val * 4
                    ELSE val * 4
         IN  IF res < 0 THEN 0 ELSE IF res > 63 THEN 63 ELSE res

\* compute_decay_env_vol_step returns a step and may set the slot's reverb latch:
\* the pair [latch, res].
decay_rate(slot, val) ==
    IF slot.DAMP # 0 THEN 56
    ELSE IF slot.preverb # 0 /\ gt32(slot.env_vol, EnvLevel(6)) THEN 5
    ELSE compute_rate(slot, val)

decay_step(rate) == IF rate < 4 THEN u32(0) ELSE u32(EnvDiv(m_lut_dr(rate)))

compute_decay_env_vol_step(slot, val) ==
    [latch |-> slot.DAMP = 0 /\ slot.preverb # 0 /\ gt32(slot.env_vol, EnvLevel(6)),
     res   |-> decay_step(decay_rate(slot, val))]

\* A decay-type phase: its step d from compute_decay_env_vol_step, its limit lim.
with_decay(slot, d, lim) ==
    [slot EXCEPT !.env_preverb = IF d.latch THEN 1 ELSE @,
                 !.env_vol_step = d.res,
                 !.env_vol_lim = lim]

decay_phase(slot, val, lim) == with_decay(slot, compute_decay_env_vol_step(slot, val), lim)

compute_freq_step(slot) ==
    [slot EXCEPT !.step = (((slot.F_NUMBER % 1024) + 1024) * Pow2(signed_octave(slot) + 8)) \div 8]

\* compute_envelope, by phase.  A skipped phase increments env_step and calls
\* compute_envelope again: Attack can only go on to Decay 1, Decay 1 to Decay 2.
envelope_off_unlatched(slot) ==
    [slot EXCEPT !.env_vol = EnvOff, !.env_vol_step = u32(0),
                 !.env_vol_lim = u32(0), !.active = 0, !.env_preverb = 0]

envelope_off(slot) ==
    [slot EXCEPT !.env_vol = EnvOff, !.env_vol_step = u32(0),
                 !.env_vol_lim = u32(0), !.active = 0]

envelope_decay2(slot) == decay_phase(slot, slot.D2R, EnvOff)

envelope_decay1(slot) ==
    IF slot.DL # 0
    THEN decay_phase(slot, slot.D1R, EnvLevel(slot.DL))
    ELSE envelope_decay2([slot EXCEPT !.env_step = 2])

attack_at_gradual(s, rate) ==
    IF rate < 4
    THEN [s EXCEPT !.env_vol_step = u32(0)]
    ELSE [s EXCEPT !.env_vol_step = not32(u32(EnvDiv(17)))]

attack_at(s, rate) ==
    IF rate = 63
    THEN envelope_decay1([s EXCEPT !.env_vol = u32(0), !.env_step = 1])
    ELSE IF rate < 4
    THEN [s EXCEPT !.env_vol_step = u32(0)]
    ELSE [s EXCEPT !.env_vol_step = not32(u32(EnvDiv(m_lut_ar(rate))))]

envelope_attack(slot) ==
    attack_at([slot EXCEPT !.env_vol = EnvOff, !.env_vol_lim = <<32767, 65535>>],
              compute_rate(slot, slot.AR))

compute_envelope(slot) ==
    CASE slot.env_step = 0 -> envelope_attack(slot)
      [] slot.env_step = 1 -> envelope_decay1(slot)
      [] slot.env_step = 2 -> envelope_decay2(slot)
      [] slot.env_step = 3 -> envelope_off(slot)
      [] slot.env_step = 4 -> decay_phase(slot, slot.RR, EnvOff)
      [] slot.env_step = 5 -> envelope_off(slot)
      [] OTHER -> slot

retrigger_sample_any_octave(slot) ==
    compute_envelope(compute_freq_step(
        [slot EXCEPT !.active = 1, !.stepptr = u32(0), !.env_step = 0, !.env_preverb = 0]))

retrigger_sample(slot) ==
    compute_envelope(compute_freq_step(
        [slot EXCEPT !.active = IF slot.octave # 8 THEN 1 ELSE @,
                     !.stepptr = u32(0),
                     !.env_step = 0,
                     !.env_preverb = 0]))

\* The wave memory behind read_byte / space(0).write_byte: a ROM below RamBase,
\* RAM from there on.  wave_ram holds the RAM bytes written so far.
RamBase == 2097152

\* The ROM holds a looped 8-bit wave as wave 3 (start 0, loop 1, end 4, instant
\* attack, no decay, release rate 15) and a byte pattern everywhere else.
LoopHeader == <<0, 0, 0, 0, 1, 255, 252, 0, 240, 0, 255, 0>>

RomByte(addr) ==
    IF addr >= 36 /\ addr <= 47 THEN LoopHeader[addr - 35]
    ELSE (addr * 37 + 11 + (addr \div 12) * 5 + (addr \div 3072) * 89) % 256

read_byte(ram, addr) ==
    IF addr \in DOMAIN ram THEN ram[addr]
    ELSE IF addr < RamBase THEN RomByte(addr)
    ELSE 0

write_byte(ram, addr, data) ==
    IF addr < RamBase THEN ram
    ELSE [a \in DOMAIN ram \cup {addr} |-> IF a = addr THEN data ELSE ram[a]]

\* The slot and the parameter group a slot register addresses.
snum_shifted(reg) == (reg - 7) % 24

snum(reg) == (reg - 8) % 24

group(reg) == (reg - 8) \div 24

slot_reg(n, g) == 8 + n + g * 24

\* Where the 12-byte header of a wave number lies.
header_offset(wave, wavetblhdr) ==
    IF wave < 384 \/ wavetblhdr = 0 THEN wave * 12
    ELSE wavetblhdr * 524288 + (wave - 384) * 12

\* The header bytes p[0] .. p[11], as a function on 0 .. 11.
header(ram, wave, wavetblhdr) ==
    LET o == header_offset(wave, wavetblhdr)
        t == <<read_byte(ram, o), read_byte(ram, o + 1), read_byte(ram, o + 2),
               read_byte(ram, o + 3), read_byte(ram, o + 4), read_byte(ram, o + 5),
               read_byte(ram, o + 6), read_byte(ram, o + 7), read_byte(ram, o + 8),
               read_byte(ram, o + 9), read_byte(ram, o + 10), read_byte(ram, o + 11)>>
    IN  [i \in 0 .. 11 |-> t[i + 1]]

\* Case 0 before its register copies: wave number, sample format and addresses.
load_header(slot, data, p) ==
    [slot EXCEPT !.wave = (slot.wave \div 256) * 256 + data,
                 !.bits = p[0] \div 64,
                 !.startaddr = u32(p[2] + p[1] * 256 + (p[0] % 64) * 65536),
                 !.loopaddr = <<p[3] * 256 + p[4], 0>>,
                 !.endaddr = <<65535 - ((p[5] * 256 + p[6] + 65535) % 65536), 0>>]

\* The header bytes case 0 copies into the slot's registers: byte i goes to
\* parameter group i - 2.
HeaderRegBytes_six == 6 .. 11

HeaderRegBytes == 7 .. 11

\* Case 0 with key-on clear and the voice active.
deactivate_release(slot) == compute_envelope([slot EXCEPT !.env_step = 4])

deactivate(slot) == compute_envelope([slot EXCEPT !.env_step = 5])

\* Case 4 with bit 7 clear and the voice active: the key-off.
release_kept(slot) == compute_envelope(slot)

release(slot) == compute_envelope([slot EXCEPT !.env_step = 4])

\* A key-on that starts the voice again although its key was on.
key_on_again_retrigger(s, data, old) == [retrigger_sample(s) EXCEPT !.KEY_ON = 1]

\* Lines 500-506: a key-on written to a slot whose key is on; s has the new
\* CH, pan and DAMP.
key_on_again(s, data, old) ==
    IF ((data \div 64) % 2) # ((old \div 64) % 2) THEN compute_envelope(s) ELSE s

\* Cases 1 .. 9 of the slot switch; old is m_pcmregs[reg] before the write.
slot_param_w(slot, g, data, old) ==
    CASE g = 1 ->
           LET s == [slot EXCEPT !.wave = (slot.wave % 256) + (data % 2) * 256,
                                 !.F_NUMBER = (slot.F_NUMBER \div 128) * 128 + (data \div 2)]
           IN  IF slot.active # 0 /\ (data \div 2) # (old \div 2)
               THEN compute_envelope(compute_freq_step(s))
               ELSE s
      [] g = 2 ->
           LET s == [slot EXCEPT !.F_NUMBER = (slot.F_NUMBER % 128) + (data % 8) * 128,
                                 !.preverb = (data \div 8) % 2,
                                 !.octave = data \div 16]
               a == [s EXCEPT !.active = IF s.octave # 8 THEN 1 ELSE 0]
           IN  IF data = old THEN s
               ELSE IF a.active # 0
               THEN compute_envelope(compute_freq_step([a EXCEPT !.env_preverb = 0]))
               ELSE a
      [] g = 3 -> [slot EXCEPT !.TL = data \div 2, !.LD = data % 2]
      [] g = 4 ->
           LET s == [slot EXCEPT !.CH = (data \div 16) % 2,
                                 !.pan = data % 16,
                                 !.DAMP = (data \div 64) % 2]
           IN  IF data >= 128
               THEN IF slot.KEY_ON # 0
                    THEN key_on_again(s, data, old)
                    ELSE [retrigger_sample(s) EXCEPT !.KEY_ON = 1]
               ELSE IF slot.active # 0
               THEN [release(s) EXCEPT !.KEY_ON = 0]
               ELSE [s EXCEPT !.KEY_ON = 0]
      [] g = 5 -> [slot EXCEPT !.LFO = (data \div 8) % 8, !.VIB = data % 8]
      [] g = 6 ->
           LET s == [slot EXCEPT !.AR = data \div 16, !.D1R = data % 16]
           IN  IF slot.active # 0 /\ data # old THEN compute_envelope(s) ELSE s
      [] g = 7 ->
           LET s == [slot EXCEPT !.DL = data \div 16, !.D2R = data % 16]
           IN  IF slot.active # 0 /\ data # old THEN compute_envelope(s) ELSE s
      [] g = 8 ->
           LET s == [slot EXCEPT !.RC = data \div 16, !.RR = data % 16]
           IN  IF slot.active # 0 /\ data # old THEN compute_envelope(s) ELSE s
      [] g = 9 -> [slot EXCEPT !.AM = data % 8]

\* A pointer that is not wrapped to 22 bits.
next_memadr_unwrapped(a) == a + 1

\* (m_memadr + 1) & 0x3fffff, lines 580 and 709.
next_memadr(a) == (a + 1) % 4194304

\* A register file that keeps no byte for the registers C_w does not decode.
store_reg_mapped_only(c, reg, data) ==
    IF reg \in 250 .. 255 THEN c
    ELSE [c EXCEPT !.m_pcmregs[reg] = IF reg = 3 THEN data % 64 ELSE data]

\* C_w stores the data in the register file last; register 3 keeps six bits.
store_reg(c, reg, data) ==
    [c EXCEPT !.m_pcmregs[reg] = IF reg = 3 THEN data % 64 ELSE data]

\* C_w on a chip c, the record of the device's members, for every register but
\* the wave numbers.
C_w_other(c, reg, data) ==
    store_reg(
        IF reg >= 8 /\ reg <= 247
        THEN [c EXCEPT !.m_slots[snum(reg)] =
                           slot_param_w(@, group(reg), data, c.m_pcmregs[reg])]
        ELSE CASE reg = 2 -> [c EXCEPT !.m_wavetblhdr = (data \div 4) % 8,
                                       !.m_memmode = data % 4]
               [] reg = 5 -> [c EXCEPT !.m_memadr = c.m_pcmregs[3] * 65536
                                                    + c.m_pcmregs[4] * 256 + data]
               [] reg = 6 -> [c EXCEPT !.wave_ram = write_byte(@, c.m_memadr, data),
                                       !.m_memadr = next_memadr(c.m_memadr)]
               [] reg = 248 -> [c EXCEPT !.m_fm_l = data % 8, !.m_fm_r = (data \div 8) % 8]
               [] reg = 249 -> [c EXCEPT !.m_pcm_l = data % 8, !.m_pcm_r = (data \div 8) % 8]
               [] OTHER -> c,
        reg, data)

\* The C_w calls a wave-number write makes for the header bytes todo of slot n,
\* in ascending order; they address groups 5 .. 9.  cw_rewrites records them.
RECURSIVE copy_regs(_, _, _, _)
copy_regs(c, n, p, todo) ==
    IF todo = {} THEN c
    ELSE LET i == CHOOSE j \in todo : \A k \in todo : j <= k
             r == slot_reg(n, i - 2)
         IN  copy_regs([C_w_other(c, r, p[i]) EXCEPT !.cw_rewrites = Append(@, <<r, p[i]>>)],
                       n, p, todo \ {i})

\* The end of a wave-number write: retrigger with the key on, deactivate an
\* active voice with the key off.
wave_voice(s) ==
    IF s.KEY_ON # 0 THEN retrigger_sample(s)
    ELSE IF s.active # 0 THEN deactivate(s)
    ELSE s

wave_loaded(c2, n) == [c2 EXCEPT !.status_LD = TRUE, !.m_slots[n] = wave_voice(@)]

wave_w(c, n, data, p) ==
    wave_loaded(copy_regs([c EXCEPT !.m_slots[n] = load_header(@, data, p)],
                          n, p, HeaderRegBytes), n)

\* C_w on a chip c.
C_w_on(c, reg, data) ==
    IF reg >= 8 /\ reg <= 247 /\ group(reg) = 0
    THEN store_reg(
             wave_w(c, snum(reg), data,
                    header(c.wave_ram, (c.m_slots[snum(reg)].wave \div 256) * 256 + data,
                           c.m_wavetblhdr)),
             reg, data)
    ELSE C_w_other(c, reg, data)

\* The device's members as one record, for the operators above.
chip ==
    [m_slots |-> m_slots, m_pcmregs |-> m_pcmregs, m_wavetblhdr |-> m_wavetblhdr,
     m_memmode |-> m_memmode, m_memadr |-> m_memadr,
     m_fm_l |-> m_fm_l, m_fm_r |-> m_fm_r, m_pcm_l |-> m_pcm_l, m_pcm_r |-> m_pcm_r,
     status_LD |-> status_LD, wave_ram |-> wave_ram, cw_rewrites |-> cw_rewrites]

chip_is(c) ==
    /\ m_slots = c.m_slots
    /\ m_pcmregs = c.m_pcmregs
    /\ m_wavetblhdr = c.m_wavetblhdr
    /\ m_memmode = c.m_memmode
    /\ m_memadr = c.m_memadr
    /\ m_fm_l = c.m_fm_l
    /\ m_fm_r = c.m_fm_r
    /\ m_pcm_l = c.m_pcm_l
    /\ m_pcm_r = c.m_pcm_r
    /\ status_LD = c.status_LD
    /\ wave_ram = c.wave_ram
    /\ cw_rewrites = c.cw_rewrites

chip_becomes(c) ==
    /\ m_slots' = c.m_slots
    /\ m_pcmregs' = c.m_pcmregs
    /\ m_wavetblhdr' = c.m_wavetblhdr
    /\ m_memmode' = c.m_memmode
    /\ m_memadr' = c.m_memadr
    /\ m_fm_l' = c.m_fm_l
    /\ m_fm_r' = c.m_fm_r
    /\ m_pcm_l' = c.m_pcm_l
    /\ m_pcm_r' = c.m_pcm_r
    /\ status_LD' = c.status_LD
    /\ wave_ram' = c.wave_ram
    /\ cw_rewrites' = c.cw_rewrites

\* The device as device_start leaves it: no member but the tables is assigned,
\* the object is zero-filled.
ZeroSlot ==
    [wave |-> 0, F_NUMBER |-> 0, octave |-> 0, preverb |-> 0, DAMP |-> 0, CH |-> 0,
     LD |-> 0, TL |-> 0, pan |-> 0, LFO |-> 0, VIB |-> 0, AM |-> 0,
     AR |-> 0, D1R |-> 0, DL |-> 0, D2R |-> 0, RC |-> 0, RR |-> 0,
     step |-> 0, stepptr |-> u32(0), active |-> 0, KEY_ON |-> 0, bits |-> 0,
     startaddr |-> u32(0), loopaddr |-> u32(0), endaddr |-> u32(0),
     env_step |-> 0, env_vol |-> u32(0), env_vol_step |-> u32(0),
     env_vol_lim |-> u32(0), env_preverb |-> 0]

ZeroChip ==
    [m_slots |-> [n \in SlotNums |-> ZeroSlot], m_pcmregs |-> [r \in PcmRegs |-> 0],
     m_wavetblhdr |-> 0, m_memmode |-> 0, m_memadr |-> 0,
     m_fm_l |-> 0, m_fm_r |-> 0, m_pcm_l |-> 0, m_pcm_r |-> 0,
     status_LD |-> FALSE, wave_ram |-> <<>>, cw_rewrites |-> <<>>]

\* The registers device_reset clears, in its order: 0 .. 7, then 0xff down to 8.
ResetOrder == [i \in 1 .. 256 |-> IF i <= 8 THEN i - 1 ELSE 264 - i]

\* C_w(ResetOrder[i], 0) for i = lo .. hi, in order, on a chip c.
RECURSIVE clear_regs(_, _, _)
clear_regs(c, lo, hi) ==
    IF c.m_memadr < 0 THEN c
    ELSE IF lo = hi THEN C_w_on(c, ResetOrder[lo], 0)
    ELSE clear_regs(clear_regs(c, lo, (lo + hi) \div 2), (lo + hi) \div 2 + 1, hi)

silence(slot) ==
    compute_envelope(
        [slot EXCEPT !.LFO = 0, !.VIB = 0, !.AR = 0, !.D1R = 0, !.DL = 0, !.D2R = 0,
                     !.RC = 0, !.RR = 0, !.AM = 0,
                     !.startaddr = u32(0), !.loopaddr = u32(0), !.endaddr = u32(0),
                     !.env_step = 5])

device_reset_on(c) ==
    [C_w_on(clear_regs(c, 1, 256), 248, 27)
        EXCEPT !.m_memadr = 0,
               !.m_slots = [n \in SlotNums |-> silence(@[n])],
               !.status_LD = FALSE,
               !.cw_rewrites = <<>>]

\* The FM core m_fm is a library object; of it the model keeps what write and
\* read use: the bytes written to its registers and the busy bit of its status.
\* After its reset no register is written and the status is clear.
fm_reset == [regs |-> <<>>, busy |-> FALSE]

\* m_fm.write(addr, data) as far as the flags and the register read-back go.
fm_write(f, addr, data) == [f EXCEPT !.regs = [a \in (DOMAIN @) \cup {addr} |->
                                                   IF a = addr THEN data ELSE @[a]]]

\* m_fm.regs().read(addr).
fm_read(f, addr) == IF addr \in DOMAIN f.regs THEN f.regs[addr] ELSE 0

\* NEW and NEW2: bits 0 and 1 of FM register 0x105.
newflag(f) == fm_read(f, 261) % 2

new2flag(f) == (fm_read(f, 261) \div 2) % 2

\* m_fm.status(): STATUS_BUSY is bit 0, STATUS_LD bit 1; the timer and
\* interrupt flags of the FM part stay clear.
fm_status(f, ld) == (IF f.busy THEN 1 ELSE 0) + (IF ld THEN 2 ELSE 0)

\* Lines 743-746 and 771-775 of device_reset, and no access made yet.
host_start ==
    /\ m_port_AB = 0
    /\ m_lastport = 0
    /\ m_port_C = 0
    /\ m_next_status_id = FALSE
    /\ m_fm = fm_reset
    /\ m_timer_busy = 0
    /\ read_ret = -1
    /\ host_access = <<>>
    /\ host_count = 0
    /\ status_id_read = FALSE

\* device_start: m_fm_pos = 0, and no stream update has run.
stream_start ==
    /\ m_fm_pos = 0
    /\ strm_samples = 0
    /\ fm_extra = 0
    /\ fm_trace = <<>>
    /\ mix_trace = <<>>

\* A machine without the sound chip.
opl4_absent ==
    /\ m_slots = <<>>
    /\ m_pcmregs = <<>>
    /\ m_wavetblhdr = 0
    /\ m_memmode = 0
    /\ m_memadr = 0
    /\ m_fm_l = 0
    /\ m_fm_r = 0
    /\ m_pcm_l = 0
    /\ m_pcm_r = 0
    /\ status_LD = FALSE
    /\ wave_ram = <<>>
    /\ cw_rewrites = <<>>
    /\ cw_reg = -1
    /\ cw_data = -1
    /\ cw_before = <<>>
    /\ cw_count = 0
    /\ stream_start
    /\ host_start

\* Bounds on the Port C writes of one behaviour, and on those a reset may follow.
MaxWrites == 3

MaxResetWrites == 1

\* A write to the PCM register file.
C_w(reg, data) ==
    /\ cw_count < MaxWrites
    /\ chip_becomes(C_w_on([chip EXCEPT !.cw_rewrites = <<>>], reg, data))
    /\ cw_reg' = reg
    /\ cw_data' = data
    /\ cw_before' = IF reg >= 8 /\ reg <= 247
                    THEN [KEY_ON |-> m_slots[(reg - 8) % 24].KEY_ON,
                          active |-> m_slots[(reg - 8) % 24].active,
                          env_preverb |-> m_slots[(reg - 8) % 24].env_preverb]
                    ELSE <<>>
    /\ cw_count' = cw_count + 1
    /\ last_op' = "C_w"
    /\ UNCHANGED <<irqVars, cfgVars, scanVars, mouseVars, memVars, portVars, floppyVars,
                   miscVars, pwmVars, syncVars, strmVars, hostVars>>

device_reset ==
    /\ cw_count <= MaxResetWrites
    /\ chip_becomes(device_reset_on(chip))
    /\ cw_reg' = -1
    /\ cw_data' = -1
    /\ cw_before' = <<>>
    /\ m_port_AB' = 0
    /\ m_port_C' = 0
    /\ m_lastport' = 0
    /\ m_next_status_id' = FALSE
    /\ m_timer_busy' = 0
    /\ m_fm' = fm_reset
    /\ status_id_read' = FALSE
    /\ last_op' = "device_reset"
    /\ UNCHANGED <<cw_count, irqVars, cfgVars, scanVars, mouseVars, memVars, portVars,
                   floppyVars, miscVars, pwmVars, syncVars, strmVars, read_ret, host_access,
                   host_count>>

----------------------------------------------------------------------------
(* sound_stream_update: the wavetable voices and the FM resampling step     *)

\* a - b on uint32_t, and the test (int32_t)(a - b) >= 0.
sub32(a, b) == add32(a, add32(not32(b), u32(1)))

diff_nonneg(a, b) == sub32(a, b)[1] < 32768

\* device_start: m_volume[i] = 65536 * pow(2.0, (-0.375 / 6) * i) for i < 256,
\* stored as an integer, and 0 from 256 on.
VolumeTable ==
    <<
      65536, 62757, 60096, 57548, 55108, 52772, 50535, 48392, 46340, 44376, 42494, 40693,
      38967, 37315, 35733, 34218, 32768, 31378, 30048, 28774, 27554, 26386, 25267, 24196,
      23170, 22188, 21247, 20346, 19483, 18657, 17866, 17109, 16384, 15689, 15024, 14387,
      13777, 13193, 12633, 12098, 11585, 11094, 10623, 10173, 9741, 9328, 8933, 8554,
      8192, 7844, 7512, 7193, 6888, 6596, 6316, 6049, 5792, 5547, 5311, 5086,
      4870, 4664, 4466, 4277, 4096, 3922, 3756, 3596, 3444, 3298, 3158, 3024,
      2896, 2773, 2655, 2543, 2435, 2332, 2233, 2138, 2048, 1961, 1878, 1798,
      1722, 1649, 1579, 1512, 1448, 1386, 1327, 1271, 1217, 1166, 1116, 1069,
      1024, 980, 939, 899, 861, 824, 789, 756, 724, 693, 663, 635,
      608, 583, 558, 534, 512, 490, 469, 449, 430, 412, 394, 378,
      362, 346, 331, 317, 304, 291, 279, 267, 256, 245, 234, 224,
      215, 206, 197, 189, 181, 173, 165, 158, 152, 145, 139, 133,
      128, 122, 117, 112, 107, 103, 98, 94, 90, 86, 82, 79,
      76, 72, 69, 66, 64, 61, 58, 56, 53, 51, 49, 47,
      45, 43, 41, 39, 38, 36, 34, 33, 32, 30, 29, 28,
      26, 25, 24, 23, 22, 21, 20, 19, 19, 18, 17, 16,
      16, 15, 14, 14, 13, 12, 12, 11, 11, 10, 10, 9,
      9, 9, 8, 8, 8, 7, 7, 7, 6, 6, 6, 5,
      5, 5, 5, 4, 4, 4, 4, 4, 4, 3, 3, 3,
      3, 3, 3, 2, 2, 2, 2, 2, 2, 2, 2, 2,
      2, 1, 1, 1, 1, 1, 1, 1, 1, 1, 1, 1,
      1, 1, 1, 1
    >>

m_volume_wrapped(i) == VolumeTable[(i % 256) + 1]

m_volume(i) == IF i < 256 THEN VolumeTable[i + 1] ELSE 0

m_pan_left(i) == IF i < 7 THEN i * 8 ELSE IF i < 9 THEN 256 ELSE 0

m_pan_right(i) == IF i < 8 THEN 0 ELSE IF i < 10 THEN 256 ELSE (16 - i) * 8

\* Lines 248-254: the loop wrap, applied once.
loop_wrap_twice(slot) ==
    IF gt32(slot.endaddr, slot.stepptr) THEN slot
    ELSE [slot EXCEPT !.stepptr = add32(sub32(add32(sub32(@, slot.endaddr), slot.loopaddr),
                                                slot.endaddr), slot.loopaddr)]

loop_wrap(slot) ==
    IF gt32(slot.endaddr, slot.stepptr) THEN slot
    ELSE [slot EXCEPT !.stepptr = add32(sub32(@, slot.endaddr), slot.loopaddr)]

\* Lines 256-283: the sample at startaddr + pos, pos being stepptr >> 16.
sample_at(ram, bits, base, pos) ==
    CASE bits = 0 -> int16(read_byte(ram, base + pos) * 256)
      [] bits = 1 ->
           IF pos % 2 = 1
           THEN int16(read_byte(ram, base + (pos \div 2) * 3 + 2) * 256
                      + (read_byte(ram, base + (pos \div 2) * 3 + 1) \div 16) * 16)
           ELSE int16(read_byte(ram, base + (pos \div 2) * 3) * 256
                      + (read_byte(ram, base + (pos \div 2) * 3 + 1) % 16) * 16)
      [] bits = 2 -> int16(read_byte(ram, base + pos * 2) * 256
                           + read_byte(ram, base + pos * 2 + 1))
      [] OTHER -> 0

fetch_sample(slot, ram) ==
    sample_at(ram, slot.bits, slot.startaddr[1] * 65536 + slot.startaddr[2], slot.stepptr[1])

\* The index into m_volume for a pan attenuation: env_vol >> 23 is the high
\* half of env_vol shifted by 7.
volume_index_shift_22(slot, panned) == slot.TL + panned + (slot.env_vol[1] \div 64)

volume_index(slot, panned) == slot.TL + panned + (slot.env_vol[1] \div 128)

scaled(sample, index) == (sample * m_volume(index)) \div 131072

\* Lines 285-298: what one sample adds to m_mix_buffer[0 .. 3] of its frame.
mix_add(slot, sample) ==
    IF slot.CH # 0
    THEN <<0, 0, scaled(sample, volume_index(slot, m_pan_left(slot.pan))),
                 scaled(sample, volume_index(slot, m_pan_right(slot.pan)))>>
    ELSE <<scaled(sample, volume_index(slot, m_pan_left(slot.pan))),
           scaled(sample, volume_index(slot, m_pan_right(slot.pan))), 0, 0>>

\* An update that never tests the limit.
envelope_check_skipped(s) == s

\* Lines 305-311 on a slot whose stepptr and env_vol have been advanced.
envelope_check_late(s) ==
    IF gt32(s.env_vol, s.env_vol_lim)
    THEN compute_envelope([s EXCEPT !.env_step = @ + 1])
    ELSE IF s.preverb # 0 /\ s.env_preverb = 0 /\ s.env_step # 0 /\ gt32(s.env_vol, EnvLevel(6))
    THEN compute_envelope(s)
    ELSE s

envelope_check(s) ==
    IF diff_nonneg(s.env_vol, s.env_vol_lim)
    THEN compute_envelope([s EXCEPT !.env_step = @ + 1])
    ELSE IF s.preverb # 0 /\ s.env_preverb = 0 /\ s.env_step # 0 /\ gt32(s.env_vol, EnvLevel(6))
    THEN compute_envelope(s)
    ELSE s

\* An update that adds env_vol_step twice for a sample.
advance_envelope_twice(w) ==
    envelope_check([w EXCEPT !.stepptr = add32(@, u32(w.step)),
                             !.env_vol = add32(add32(@, w.env_vol_step), w.env_vol_step)])

\* Lines 300-311 on a slot after its loop wrap.
advance(w) ==
    envelope_check([w EXCEPT !.stepptr = add32(@, u32(w.step)),
                             !.env_vol = add32(@, w.env_vol_step)])

\* What the history keeps of one sample of a voice: its active flag and its
\* stepptr before the sample, the stepptr the fetch used, the sample fetched,
\* what was added to the mix, and the envelope volume and step the sample was
\* mixed at.
sample_record(slot, w, ram) ==
    [active |-> slot.active, before |-> slot.stepptr, pos |-> w.stepptr,
     sample |-> fetch_sample(w, ram), add |-> mix_add(w, fetch_sample(w, ram)),
     env_vol |-> w.env_vol, env_vol_step |-> w.env_vol_step]

\* The inner loop, lines 246-312: n samples of one voice.
RECURSIVE voice_samples(_, _, _, _)
voice_samples(slot, ram, n, trace) ==
    IF n = 0 THEN [slot |-> slot, trace |-> trace]
    ELSE voice_samples(advance(loop_wrap(slot)), ram, n - 1,
                       Append(trace, sample_record(slot, loop_wrap(slot), ram)))

\* Lines 238-314: the voices that are active when their turn comes.
voice_update(slot, ram, n) ==
    IF slot.active # 0 THEN voice_samples(slot, ram, n, <<>>)
    ELSE [slot |-> slot, trace |-> <<>>]

\* FM_STEP, lines 60-69, with the clock/(19*36) of the comment there.
FM_STEP == 2060359

\* Lines 327-335 for one output sample: the new m_fm_pos and the FM clocks.
fm_sample_regular_first(pos) ==
    IF pos + FM_STEP >= 16777216
    THEN [pos |-> (pos + FM_STEP) % 16777216, clocks |-> <<"regular", "extra">>]
    ELSE [pos |-> pos + FM_STEP, clocks |-> <<"regular">>]

fm_sample(pos) ==
    IF ((pos + FM_STEP) \div 16777216) % 2 = 1
    THEN [pos |-> (pos + FM_STEP) % 16777216, clocks |-> <<"extra", "regular">>]
    ELSE [pos |-> pos + FM_STEP, clocks |-> <<"regular">>]

\* Lines 321-352: n output samples.
RECURSIVE fm_samples(_, _, _)
fm_samples(pos, n, trace) ==
    IF n = 0 THEN [pos |-> pos, trace |-> trace]
    ELSE fm_samples(fm_sample(pos).pos, n - 1, Append(trace, fm_sample(pos).clocks))

extra_clocks(trace) == Cardinality({i \in DOMAIN trace : Len(trace[i]) = 2})

fm_becomes(f) ==
    /\ m_fm_pos' = f.pos
    /\ fm_trace' = f.trace
    /\ fm_extra' = fm_extra + extra_clocks(f.trace)

\* A stream update that produces n output samples.
sound_stream_update(n) ==
    /\ m_slots' = [i \in SlotNums |-> voice_update(m_slots[i], wave_ram, n).slot]
    /\ mix_trace' = [i \in SlotNums |-> voice_update(m_slots[i], wave_ram, n).trace]
    /\ fm_becomes(fm_samples(m_fm_pos, n, <<>>))
    /\ strm_samples' = strm_samples + n
    /\ last_op' = "sound_stream_update"
    /\ UNCHANGED <<m_pcmregs, m_wavetblhdr, m_memmode, m_memadr, m_fm_l, m_fm_r, m_pcm_l,
                   m_pcm_r, status_LD, wave_ram, cw_rewrites, cw_reg, cw_data, cw_before,
                   cw_count, hostVars>>
    /\ UNCHANGED <<irqVars, cfgVars, scanVars, mouseVars, memVars, portVars, floppyVars,
                   miscVars, pwmVars, syncVars>>

----------------------------------------------------------------------------
(* YMF278B host interface: write, read and the status timers *)

\* timer_busy_start, lines 605-610: STATUS_BUSY set, the timer started for
\* 88 (PCM) or 56 (FM) cycles.
timer_busy_start(is_pcm) ==
    /\ m_timer_busy' = IF is_pcm THEN 88 ELSE 56
    /\ m_fm' = [m_fm EXCEPT !.busy = TRUE]

\* The members a write or read leaves alone apart from those it names.
chip_unchanged ==
    UNCHANGED <<m_slots, m_pcmregs, m_wavetblhdr, m_memmode, m_memadr, m_fm_l, m_fm_r,
                m_pcm_l, m_pcm_r, status_LD, wave_ram, cw_rewrites, cw_reg, cw_data,
                cw_before, cw_count, strmVars>>

\* m_stream->update() when n output samples are due: the slots it leaves, and
\* what it does to the stream history.
streamed(n) == [i \in SlotNums |-> voice_update(m_slots[i], wave_ram, n).slot]

m_stream_update(n) ==
    /\ mix_trace' = [i \in SlotNums |-> voice_update(m_slots[i], wave_ram, n).trace]
    /\ fm_becomes(fm_samples(m_fm_pos, n, <<>>))
    /\ strm_samples' = strm_samples + n

\* The write of a PCM data byte that does not look at NEW2.
write_pcm_data_always(data, n) ==
    /\ m_stream_update(n)
    /\ timer_busy_start(TRUE)
    /\ chip_becomes(C_w_on([chip EXCEPT !.m_slots = streamed(n), !.cw_rewrites = <<>>],
                           m_port_C, data))
    /\ cw_reg' = m_port_C
    /\ cw_data' = data
    /\ cw_before' = <<>>
    /\ UNCHANGED <<cw_count, m_port_AB, m_lastport, m_port_C, m_next_status_id, status_id_read>>

\* write, case 5, lines 641-650; n is the number of output samples
\* m_stream->update() has to catch up with.
write_pcm_data(data, n) ==
    IF new2flag(m_fm) = 0
    THEN n = 0 /\ chip_unchanged
         /\ UNCHANGED <<m_port_AB, m_lastport, m_port_C, m_next_status_id, m_fm, m_timer_busy,
                        status_id_read>>
    ELSE /\ m_stream_update(n)
         /\ timer_busy_start(TRUE)
         /\ chip_becomes(C_w_on([chip EXCEPT !.m_slots = streamed(n), !.cw_rewrites = <<>>],
                                m_port_C, data))
         /\ cw_reg' = m_port_C
         /\ cw_data' = data
         /\ cw_before' = <<>>
         /\ UNCHANGED <<cw_count, m_port_AB, m_lastport, m_port_C, m_next_status_id, status_id_read>>

\* write, lines 612-656.
write(offset, data, n) ==
    /\ CASE offset % 8 \in {0, 2} ->
              /\ n = 0
              /\ timer_busy_start(FALSE)
              /\ m_port_AB' = data
              /\ m_lastport' = (offset \div 2) % 2
              /\ chip_unchanged
              /\ UNCHANGED <<m_port_C, m_next_status_id, status_id_read>>
         [] offset % 8 \in {1, 3} ->
              /\ n = 0
              /\ m_timer_busy' = 56
              /\ m_fm' = [fm_write(m_fm, m_port_AB + 256 * m_lastport, data) EXCEPT !.busy = TRUE]
              /\ m_next_status_id' =
                    IF new2flag(m_fm) = 0
                       /\ new2flag(fm_write(m_fm, m_port_AB + 256 * m_lastport, data)) # 0
                    THEN TRUE ELSE m_next_status_id
              /\ status_id_read' =
                    IF new2flag(m_fm) = 0
                       /\ new2flag(fm_write(m_fm, m_port_AB + 256 * m_lastport, data)) # 0
                    THEN FALSE ELSE status_id_read
              /\ chip_unchanged
              /\ UNCHANGED <<m_port_AB, m_lastport, m_port_C>>
         [] offset % 8 = 4 ->
              /\ n = 0
              /\ timer_busy_start(TRUE)
              /\ m_port_C' = data
              /\ chip_unchanged
              /\ UNCHANGED <<m_port_AB, m_lastport, m_next_status_id, status_id_read>>
         [] offset % 8 = 5 -> write_pcm_data(data, n)
         [] OTHER ->
              /\ n = 0
              /\ chip_unchanged
              /\ UNCHANGED <<m_port_AB, m_lastport, m_port_C, m_next_status_id, m_fm,
                             m_timer_busy, status_id_read>>
    /\ host_access' = <<offset, data>>
    /\ host_count' = host_count + 1
    /\ last_op' = "write"
    /\ UNCHANGED read_ret
    /\ UNCHANGED <<irqVars, cfgVars, scanVars, mouseVars, memVars, portVars, floppyVars,
                   miscVars, pwmVars, syncVars>>

\* A status read that leaves m_next_status_id set.
read_status_id_kept(f, ld, id) ==
    IF new2flag(f) = 0
    THEN [ret |-> IF newflag(f) = 0 THEN 6 ELSE 0, id |-> id]
    ELSE [ret |-> IF id THEN fm_status(f, ld) + (IF ld THEN 0 ELSE 2) ELSE fm_status(f, ld),
          id  |-> id]

\* read, case 0, lines 665-685: the byte returned and the new m_next_status_id.
\* Clearing STATUS_BUSY | STATUS_LD leaves 0 of the status; or-ing 2 into it
\* sets bit 1 unless STATUS_LD has.
read_status(f, ld, id) ==
    IF new2flag(f) = 0
    THEN [ret |-> IF newflag(f) = 0 THEN 6 ELSE 0, id |-> id]
    ELSE [ret |-> IF id THEN fm_status(f, ld) + (IF ld THEN 0 ELSE 2) ELSE fm_status(f, ld),
          id  |-> FALSE]

\* read, case 5, lines 695-716: the byte returned.
read_pcm_data(f, reg, regs, ram, memadr) ==
    IF new2flag(f) = 0 THEN 0
    ELSE IF reg = 2 THEN (regs[2] % 32) + 32
    ELSE IF reg = 6 THEN read_byte(ram, memadr)
    ELSE regs[reg]

\* read, lines 659-724.
read(offset) ==
    /\ CASE offset % 8 = 0 ->
              /\ read_ret' = read_status(m_fm, status_LD, m_next_status_id).ret
              /\ m_next_status_id' = read_status(m_fm, status_LD, m_next_status_id).id
              /\ status_id_read' = (status_id_read \/ (new2flag(m_fm) # 0 /\ m_next_status_id))
              /\ UNCHANGED m_memadr
         [] offset % 8 \in {1, 3} ->
              /\ read_ret' = fm_read(m_fm, m_port_AB + 256 * m_lastport)
              /\ UNCHANGED <<m_next_status_id, m_memadr, status_id_read>>
         [] offset % 8 = 5 ->
              /\ read_ret' = read_pcm_data(m_fm, m_port_C, m_pcmregs, wave_ram, m_memadr)
              /\ m_memadr' = IF new2flag(m_fm) # 0 /\ m_port_C = 6
                             THEN next_memadr(m_memadr) ELSE m_memadr
              /\ UNCHANGED <<m_next_status_id, status_id_read>>
         [] OTHER ->
              /\ read_ret' = 0
              /\ UNCHANGED <<m_next_status_id, m_memadr, status_id_read>>
    /\ host_access' = <<offset, -1>>
    /\ host_count' = host_count + 1
    /\ last_op' = "read"
    /\ UNCHANGED <<m_port_AB, m_lastport, m_port_C, m_fm, m_timer_busy>>
    /\ UNCHANGED <<m_slots, m_pcmregs, m_wavetblhdr, m_memmode, m_fm_l, m_fm_r,
                   m_pcm_l, m_pcm_r, status_LD, wave_ram, cw_rewrites, cw_reg, cw_data,
                   cw_before, cw_count, strmVars>>
    /\ UNCHANGED <<irqVars, cfgVars, scanVars, mouseVars, memVars, portVars, floppyVars,
                   miscVars, pwmVars, syncVars>>

\* device_timer, lines 361-373, when one of the two timers expires.
device_timer(id) ==
    /\ CASE id = "TIMER_BUSY_CLEAR" ->
              /\ m_timer_busy # 0
              /\ m_timer_busy' = 0
              /\ m_fm' = [m_fm EXCEPT !.busy = FALSE]
              /\ UNCHANGED status_LD
         [] id = "TIMER_LD_CLEAR" ->
              /\ status_LD
              /\ status_LD' = FALSE
              /\ UNCHANGED <<m_fm, m_timer_busy>>
    /\ last_op' = "device_timer"
    /\ UNCHANGED <<m_port_AB, m_lastport, m_port_C, m_next_status_id, read_ret, host_access,
                   host_count, status_id_read>>
    /\ UNCHANGED <<m_slots, m_pcmregs, m_wavetblhdr, m_memmode, m_memadr, m_fm_l, m_fm_r,
                   m_pcm_l, m_pcm_r, wave_ram, cw_rewrites, cw_reg, cw_data,
                   cw_before, cw_count, strmVars>>
    /\ UNCHANGED <<irqVars, cfgVars, scanVars, mouseVars, memVars, portVars, floppyVars,
                   miscVars, pwmVars, syncVars>>

----------------------------------------------------------------------------
(* Initial states: constructor, mac_driver_init, machine_start, machine_reset *)

\* Everything but the machine configuration.  No initialiser assigns
\* m_via_interrupt and m_scc_interrupt: they hold the 0 of the zero-filled
\* driver object until their first callback.
InitState ==
    /\ m_via_interrupt = 0
    /\ m_scc_interrupt = 0
    /\ m_scsi_interrupt = 0
    /\ m_last_taken_interrupt = 0
    /\ cpu_lines = {}
    /\ scsi_irq = 0
    /\ m_scsi_drq = 0
    /\ m_overlay = 1
    /\ bus = [offset |-> 0, data |-> 0, mem_mask |-> 0]
    /\ m_screen_buffer = 1
    /\ m_main_buffer = TRUE
    /\ m_snd_vol = 3
    /\ m_snd_enable = FALSE
    /\ dac_gain = <<0, 1>>
    /\ m_hdsel = 0
    /\ m_drive_select = 0
    /\ m_devsel = 0
    /\ via_pa_out = -1
    /\ m_cur_floppy = 0
    /\ floppy_ss = [d \in Drives |-> 0]
    /\ floppy_rpm = [d \in Drives |-> 0]
    /\ rpm_changed = [d \in Drives |-> FALSE]
    /\ m_irq_count = 0
    /\ m_ca2_data = 0
    /\ m_adb_irq_pending = 0
    /\ m_scsiirq_enable = 0
    /\ m_pwm_count_total = 0
    /\ m_pwm_count_1 = 0
    /\ m_pwm_current_rpm = [i \in {0, 1} |-> ResetRpm]
    /\ pwm_window_sum = [i \in {0, 1} |-> -1]
    /\ pwm_run = 0
    /\ pwm_committed = FALSE
    /\ pwm_index = -1
    /\ pwm_dev = 0
    /\ lfsr = lfsr_idle
    /\ screen_vpos = 0
    /\ scan_param = 1
    /\ hblank_armed = FALSE
    /\ via_pb6 = -1
    /\ dac_out = -1
    /\ scan_fired = -1
    /\ scan_trace = <<>>
    /\ scan_pwm_data = -1
    /\ scan_since_vblank = 0
    /\ vblank_seen = FALSE
    /\ m_mouse_bit = [a \in Axes |-> 0]
    /\ m_mouse_last = [a \in Axes |-> 0]
    /\ m_mouse_last_m = [a \in Axes |-> 0]
    /\ m_mouse_count = [a \in Axes |-> 0]
    /\ mouse_raw = [a \in Axes |-> 0]
    /\ scc_dcd = [a \in Axes |-> -1]
    /\ mouse_diff = [a \in Axes |-> 0]
    /\ mouse_pulse = [a \in Axes |-> FALSE]
    /\ total_cycles = 0
    /\ via_entry = -1
    /\ via_access = -1
    /\ via_prev_access = -1
    /\ last_op = "machine_reset"

\* machine_start, lines 270-272, for a machine and one of its RAM sizes;
\* mac_driver_init line 947 clears the RAM.
InitConfig(machines) ==
    /\ machine \in machines
    /\ \E bytes \in RamOptions(machine) :
          /\ m_ram_size = bytes \div 2
          /\ m_ram_mask = (bytes \div 2) - 1
    /\ m_ram = [c \in RamCells(m_ram_size, m_ram_mask) |-> 0]

----------------------------------------------------------------------------
(* Specifications *)

\* Interrupt arbiter of a Macintosh Plus.
InitIrq ==
    /\ InitState
    /\ opl4_absent
    /\ InitConfig({"macplus"})
    /\ m_ram_size = 2097152
    /\ floppy_type = [d \in Drives |-> "MFD51W"]

NextIrq ==
    \/ \E s \in LineStates : set_scc_interrupt(s)
    \/ \E s \in LineStates : set_via_interrupt(s)
    \/ \E s \in LineStates : scsi_irq_w(s)
    \/ \E s \in LineStates : scsi_drq_w(s)
    \/ machine_reset

SpecIrq == InitIrq /\ [][NextIrq]_vars

\* Port A values the firmware is made to write: bit 4 clear and set, with the
\* other bits both ways.
PortAData == {0, 16, 111}

\* Memory router of the machines that map ram_w (128K, 512K/512Ke, Plus).
InitMem ==
    /\ InitState
    /\ opl4_absent
    /\ InitConfig({"mac128k", "mac512ke", "macplus"})
    /\ floppy_type = [d \in Drives |-> "MFD51W"]

NextMem ==
    \/ \E k \in ProbeOffsets : ram_r(k)
    \/ \E k \in ProbeOffsets, d \in WriteData, mm \in MemMasks : ram_w(k, d, mm)
    \/ \E d \in PortAData : mac_via_out_a(d)
    \/ machine_reset

SpecMem == InitMem /\ [][NextMem]_vars

\* Memory router of the SE-type machines (ram_w_se).
InitMemSE ==
    /\ InitState
    /\ opl4_absent
    /\ InitConfig({"macse"})
    /\ floppy_type = [d \in Drives |-> "MFD51W"]

NextMemSE ==
    \/ \E k \in ProbeOffsets : ram_r(k)
    \/ \E k \in ProbeOffsets, d \in WriteData, mm \in MemMasks : ram_w_se(k, d, mm)
    \/ \E d \in PortAData : mac_via_out_a_se(d)
    \/ machine_reset

SpecMemSE == InitMemSE /\ [][NextMemSE]_vars

----------------------------------------------------------------------------
(* Properties: interrupt arbiter *)

Levels == {1, 2}

\* The level field_interrupts left asserted: the one it recorded, if that
\* line is in ASSERT state; -1 for none.
AssertedLevel ==
    IF m_last_taken_interrupt \in (cpu_lines \cap Levels)
    THEN m_last_taken_interrupt ELSE -1

\* C1: after any change of a source (VIA, SCC or the SCSI controller's IRQ
\* line) the asserted level is 2 if SCC or SCSI is raised, else 1 if VIA is
\* raised, else none.
C1_InterruptPriority ==
    last_op \in {"set_via_interrupt", "set_scc_interrupt", "scsi_irq_w"} =>
        AssertedLevel = (IF m_scc_interrupt # 0 \/ scsi_irq # 0 THEN 2
                         ELSE IF m_via_interrupt # 0 THEN 1 ELSE -1)

\* C2: at most one of the levels 1 and 2 is asserted at any time, and the
\* level recorded in m_last_taken_interrupt is the one asserted, across
\* source changes and machine resets.
C2_AtMostOneLevel ==
    /\ Cardinality(cpu_lines \cap Levels) <= 1
    /\ cpu_lines \cap Levels =
          (IF m_last_taken_interrupt \in Levels THEN {m_last_taken_interrupt} ELSE {})

\* C3: with VIA and SCC clear, level 2 is asserted exactly while the SCSI
\* controller holds its IRQ line high: raised by scsi_irq_w(1), released by
\* scsi_irq_w(0).
C3_ScsiIrqAsserts ==
    (last_op = "scsi_irq_w" /\ m_via_interrupt = 0 /\ m_scc_interrupt = 0) =>
        ((scsi_irq = 1) <=> (2 \in cpu_lines))

----------------------------------------------------------------------------
(* Properties: overlay / memory router *)

\* C4: a read at word offset k returns ROM[k mod ROMsize] while the overlay
\* is active and RAM[k mod RAMsize] while it is not, for every RAM size.
C4_OverlayAddressing ==
    last_op = "ram_r" =>
        bus.data = (IF m_overlay # 0 THEN RomWord(bus.offset % RomWords)
                    ELSE m_ram[bus.offset % m_ram_size])

\* C5: on the machines that map ram_w, a write while the overlay is active
\* changes no RAM word and leaves the overlay active, and the overlay flag
\* changes only in mac_via_out_a (to bit 4 of the port value) or in
\* machine_reset (to active).
C5_BaseWriteNoOp ==
    [][ /\ (last_op' = "ram_w" /\ m_overlay # 0) =>
               (m_ram' = m_ram /\ m_overlay' = m_overlay)
        /\ (m_overlay' # m_overlay) =>
               \/ (last_op' = "mac_via_out_a" /\ m_overlay' = (via_pa_out' \div 16) % 2)
               \/ (last_op' = "machine_reset" /\ m_overlay' = 1)
      ]_vars

\* A write arrived while the overlay was active, with RAM already holding data.
C5_Witness ==
    /\ last_op = "ram_w"
    /\ m_overlay # 0
    /\ \E c \in DOMAIN m_ram : m_ram[c] # 0

----------------------------------------------------------------------------
(* Specifications: VIA synchronisation and PWM decoder *)

InitSync ==
    /\ InitState
    /\ opl4_absent
    /\ InitConfig({"mac512ke"})
    /\ floppy_type = [d \in Drives |-> "MFD51W"]

NextSync ==
    \/ mac_via_r
    \/ mac_via_w
    \/ \E n \in 1..MaxStep : cpu_execute(n)

SpecSync == InitSync /\ [][NextSync]_vars

\* The RAM size set_default_size gives a machine, in bytes.
DefaultRam(m) == IF m = "mac512ke" THEN 524288 ELSE 4194304

\* The values the IWM's devsel callback passes: no drive, drive 1, drive 2.
DevselValues == {0, 1, 2}

\* A 512Ke with a variable-speed drive in m_floppy[0] and a fixed-speed one
\* in m_floppy[1].
InitPwm ==
    /\ InitState
    /\ opl4_absent
    /\ InitConfig({"mac512ke"})
    /\ floppy_type = [d \in Drives |-> IF d = 1 THEN "OAD34V" ELSE "MFD51W"]

NextPwm ==
    \/ \E d \in PwmBaseData \cup PwmDevData \cup PwmFullData : pwm_push(d)
    \/ \E v \in DevselValues : devsel_w(v)
    \/ machine_reset

SpecPwm == InitPwm /\ [][NextPwm]_vars

\* Drive selection against the speed decoder: a 512Ke or an SE, with its
\* default RAM, a variable-speed drive in m_floppy[0] and a fixed-speed one
\* in m_floppy[1]; the sound buffer feeds two pulse lengths.
InitDevsel ==
    /\ InitState
    /\ opl4_absent
    /\ machine \in {"mac512ke", "macse"}
    /\ m_ram_size = DefaultRam(machine) \div 2
    /\ m_ram_mask = m_ram_size - 1
    /\ m_ram = [c \in RamCells(m_ram_size, m_ram_mask) |-> 0]
    /\ floppy_type = [d \in Drives |-> IF d = 1 THEN "OAD34V" ELSE "MFD51W"]

NextDevsel ==
    \/ \E d \in PwmSelData : pwm_push(d)
    \/ \E v \in DevselValues : devsel_w(v)
    \/ \E v \in DevselValues : devsel_se_w(v)
    \/ machine_reset

SpecDevsel == InitDevsel /\ [][NextDevsel]_vars


----------------------------------------------------------------------------
(* Properties: VIA bus synchronisation *)

ViaAccessDone == last_op \in {"mac_via_r", "mac_via_w"}

\* C7: via_sync advances the CPU from cycle c to the smallest multiple of 10
\* that is >= c + 2, consuming between 2 and 11 cycles, and via_sync_end
\* consumes exactly 4 more.
C7_ViaSyncBoundary ==
    ViaAccessDone =>
        /\ via_access % 10 = 0
        /\ via_access >= via_entry + 2
        /\ via_access - 10 < via_entry + 2
        /\ via_access - via_entry \in 2..11
        /\ total_cycles - via_access = 4

\* A VIA read entered one cycle past an E clock edge's reach waits the full
\* 11 cycles.
C7_Witness ==
    /\ last_op = "mac_via_r"
    /\ via_access - via_entry = 11

\* C8: for reads and writes alike the VIA access happens on a multiple of 10
\* and completes at a cycle congruent to 4 mod 10, the wait depends on the
\* starting cycle alone, and two successive accesses are at least 10 cycles
\* apart.
C8_ViaPhaseLocked ==
    ViaAccessDone =>
        /\ via_access % 10 = 0
        /\ total_cycles % 10 = 4
        /\ via_access - via_entry = 2 + ((10 - ((via_entry + 2) % 10)) % 10)
        /\ (via_prev_access >= 0) =>
               /\ via_access - via_prev_access >= 10
               /\ (via_access - via_prev_access) % 10 = 0

\* A VIA write that follows an earlier access by exactly one E clock period.
C8_Witness ==
    /\ last_op = "mac_via_w"
    /\ via_prev_access >= 0
    /\ via_access - via_prev_access = 10

----------------------------------------------------------------------------
(* Properties: floppy PWM speed decoder *)

\* The push that just returned ended a 100-pulse window.
WindowEnded == last_op = "pwm_push" /\ m_pwm_count_total = 0

\* The drive pwm_push would give a speed to.
VariableSpeedSelected ==
    m_cur_floppy # 0 /\ floppy_type[m_cur_floppy] = "OAD34V"

\* C9, as stated: two consecutive windows whose pulse-length sums differ
\* never end in a set_rpm call at the end of the second window.
C9_DifferentSumsNoCommit ==
    (WindowEnded /\ pwm_window_sum[0] >= 0
        /\ pwm_window_sum[0] # pwm_window_sum[1]) => ~pwm_committed

\* C9, amended: two consecutive windows whose computed speeds differ never
\* end in a set_rpm call at the end of the second window.
C9_DifferentRpmNoCommit ==
    (WindowEnded /\ pwm_window_sum[0] >= 0
        /\ m_pwm_current_rpm[0] # m_pwm_current_rpm[1]) => ~pwm_committed

\* Two windows with different speeds ended while a variable-speed drive was
\* selected, and the drive kept the speed it had.
C9_Witness ==
    /\ WindowEnded
    /\ VariableSpeedSelected
    /\ pwm_window_sum[0] >= 0
    /\ m_pwm_current_rpm[0] # m_pwm_current_rpm[1]
    /\ ~pwm_committed
    /\ floppy_rpm[m_cur_floppy] # m_pwm_current_rpm[1]

\* C10: with a variable-speed drive selected, a run of windows with the same
\* computed speed calls set_rpm exactly at the end of its second window, with
\* that speed, and at the end of no other window of the run.
C10_CommitOncePerRun ==
    (WindowEnded /\ VariableSpeedSelected) =>
        /\ pwm_committed <=> (pwm_run = 2)
        /\ pwm_committed => (floppy_rpm[m_cur_floppy] = m_pwm_current_rpm[1])

\* The third window of a run ended: no new set_rpm, and the drive still turns
\* at the speed committed after the second.
C10_Witness ==
    /\ WindowEnded
    /\ VariableSpeedSelected
    /\ pwm_run = 3
    /\ ~pwm_committed
    /\ floppy_rpm[m_cur_floppy] = m_pwm_current_rpm[1]

\* The last two windows computed the same speed.
WindowsAgree ==
    pwm_window_sum[0] >= 0 /\ m_pwm_current_rpm[0] = m_pwm_current_rpm[1]

\* C11: over any interleaving of pwm_push with devsel_w / devsel_se_w, a
\* drive's speed is changed at most once per 100-pulse window, and only to a
\* speed that two consecutive windows computed alike.
C11_OnlyAgreedSpeedApplied ==
    [][\A d \in Drives :
          (floppy_rpm'[d] # floppy_rpm[d]) =>
              /\ ~rpm_changed[d]
              /\ WindowsAgree'
              /\ floppy_rpm'[d] = m_pwm_current_rpm'[1]]_vars

\* The part of C11 the drivers keep: at most one change of a drive's speed
\* per window.
C11_OneChangePerWindow ==
    [][\A d \in Drives : (floppy_rpm'[d] # floppy_rpm[d]) => ~rpm_changed[d]]_vars

\* clamp(x, lo, hi).
Clamp(x, lo, hi) == IF x < lo THEN lo ELSE IF x > hi THEN hi ELSE x

\* The index the decoder is to compute from a window's sum and pulse count.
WindowIndex(sum, count) == Clamp(((sum * 10) \div count) - 11, 0, 399)

\* C12: between calls 0 <= m_pwm_count_total <= 99 and
\* 0 <= m_pwm_count_1 <= 63 * m_pwm_count_total; the 100th push of a window
\* computes the index clamp(floor(sum * 10 / 100) - 11, 0, 399) from the sum of
\* the window's pulse lengths, leaves both counters 0 and shifts the speed
\* history (entry 1 the new speed, entry 0 the speed of the window before, or
\* the reset speed), whether or not it called set_rpm.
C12_WindowIndexAndCounters ==
    /\ 0 <= m_pwm_count_total /\ m_pwm_count_total <= 99
    /\ 0 <= m_pwm_count_1 /\ m_pwm_count_1 <= 63 * m_pwm_count_total
    /\ WindowEnded =>
          /\ pwm_index = WindowIndex(pwm_window_sum[1], 100)
          /\ m_pwm_count_1 = 0
          /\ m_pwm_current_rpm[1] = rpm_of_index(pwm_index)
          /\ m_pwm_current_rpm[0] =
                 IF pwm_window_sum[0] >= 0
                 THEN rpm_of_index(WindowIndex(pwm_window_sum[0], 100))
                 ELSE ResetRpm

\* A window of 100 longest pulses ended after another window, with the
\* variable-speed drive selected: the index is at its upper clamp, set_rpm was
\* not called, and the 99th push had taken m_pwm_count_1 to 63 * 99.
C12_Witness ==
    /\ WindowEnded
    /\ VariableSpeedSelected
    /\ pwm_window_sum[0] >= 0
    /\ pwm_window_sum[1] = 6300
    /\ pwm_index = 399
    /\ ~pwm_committed
    /\ m_pwm_current_rpm[0] # m_pwm_current_rpm[1]

----------------------------------------------------------------------------
(* Scanline timer and mouse: specifications *)

\* Port A bytes that differ in bit 3 only, the sound buffer select.
ScanPortAData == {119, 127}

\* A 512Ke (mouse on the SCC) or an SE (ADB), with its default RAM and both
\* sound buffers filled.
InitScan ==
    /\ InitState
    /\ opl4_absent
    /\ machine \in {"mac512ke", "macse"}
    /\ m_ram_size = DefaultRam(machine) \div 2
    /\ m_ram_mask = m_ram_size - 1
    /\ m_ram = [c \in SndCells(m_ram_size) |-> SndWord(c)]
    /\ floppy_type = [d \in Drives |-> IF d = 1 THEN "OAD34V" ELSE "MFD51W"]

\* Beam positions at which the machine is reset: the first line, the last
\* visible line, the first line of the vertical blank and the last line.
ResetLines == {0, MAC_V_VIS - 1, MAC_V_VIS, MAC_V_TOTAL - 1}

\* machine_reset while the beam is on one of those lines.
reset_at_line ==
    /\ screen_vpos \in ResetLines
    /\ machine_reset

NextScan ==
    \/ mac_scanline
    \/ mac_hblank
    \/ reset_at_line
    \/ \E d \in ScanPortAData : mac_via_out_a(d)

SpecScan == InitScan /\ [][NextScan]_vars

\* The mouse of a 512Ke, polled while the hand moves it.
InitMouse ==
    /\ InitState
    /\ opl4_absent
    /\ InitConfig({"mac512ke"})
    /\ floppy_type = [d \in Drives |-> "MFD51W"]

NextMouse ==
    \/ \E a \in Axes : \E v \in RawSamples(a) : mouse_move(a, v)
    \/ mouse_callback

SpecMouse == InitMouse /\ [][NextMouse]_vars

----------------------------------------------------------------------------
(* Properties: scanline timer *)

ScanFired == last_op = "mac_scanline"

\* C13: the scanline handed to every mac_scanline firing lies in
\* [0, MAC_V_TOTAL), the first firing after a machine_reset included, and each
\* firing reschedules itself for scanline + 1 wrapped at MAC_V_TOTAL.
C13_ScanlineInRange ==
    /\ scan_fired = -1 \/ (0 <= scan_fired /\ scan_fired < MAC_V_TOTAL)
    /\ ScanFired => scan_param = (scan_fired + 1) % MAC_V_TOTAL

\* The part of C13 the timer callback keeps: the param a firing schedules is
\* in range.
C13_RescheduleInRange ==
    ScanFired => (0 <= scan_param /\ scan_param < MAC_V_TOTAL)

\* The steps of a firing in the order C14 gives them.
FixedOrder ==
    <<"adb_vblank", "vblank_irq", "write_pb6", "m_hblank_timer->adjust", "mouse_callback",
      "m_dac->write", "pwm_push", "m_scan_timer->adjust">>

\* The place of a step in FixedOrder.
Rank(step) == CHOOSE i \in DOMAIN FixedOrder : FixedOrder[i] = step

\* How many times a step was made in the last firing.
Times(step) == Cardinality({i \in DOMAIN scan_trace : scan_trace[i] = step})

\* The sound buffer word of the last firing.
FiredWord ==
    m_ram[m_ram_size - (IF m_main_buffer THEN 384 ELSE 12160) + scan_fired]

\* C14: every firing makes its steps in one order: the vertical-blank
\* notification if due, the beam-active assert and the hblank timer if the line
\* is visible, the mouse poll if due, the high byte of the selected sound
\* buffer word to the DAC, its low byte to pwm_push, and the reschedule last;
\* the DAC write, the pwm_push and the reschedule are each made exactly once.
C14_FixedStepOrder ==
    ScanFired =>
        /\ \A i, j \in DOMAIN scan_trace :
              i < j => Rank(scan_trace[i]) < Rank(scan_trace[j])
        /\ Times("m_dac->write") = 1
        /\ Times("pwm_push") = 1
        /\ Times("m_scan_timer->adjust") = 1
        /\ scan_trace[Len(scan_trace)] = "m_scan_timer->adjust"
        /\ Times("write_pb6") = (IF scan_fired < 342 THEN 1 ELSE 0)
        /\ Times("m_hblank_timer->adjust") = Times("write_pb6")
        /\ Times("mouse_callback") =
              (IF scan_fired % 10 = 0 /\ machine # "macse" THEN 1 ELSE 0)
        /\ dac_out = FiredWord \div 256
        /\ scan_pwm_data = FiredWord % 256

\* A firing for a visible line that polls the mouse, with the alternate sound
\* buffer selected.
C14_Witness ==
    /\ ScanFired
    /\ scan_fired = 340
    /\ ~m_main_buffer
    /\ scan_trace = <<"write_pb6", "m_hblank_timer->adjust", "mouse_callback",
                      "m_dac->write", "pwm_push", "m_scan_timer->adjust">>
    /\ dac_out # scan_pwm_data

\* vblank_irq was called by the last firing, with the ADB notification on
\* the machine that has the controller.
VblankIssued ==
    /\ Times("vblank_irq") = 1
    /\ Times("adb_vblank") = (IF machine = "macse" THEN 1 ELSE 0)

\* Every MAC_V_TOTAL consecutive firings hold exactly one that calls
\* vblank_irq: never MAC_V_TOTAL firings in a row without one, and
\* MAC_V_TOTAL - 1 others between one and the next.
OncePerFrame ==
    /\ [](scan_since_vblank < MAC_V_TOTAL)
    /\ [][(ScanFired' /\ Times("vblank_irq")' > 0 /\ vblank_seen)
             => scan_since_vblank = MAC_V_TOTAL - 1]_vars

\* C15, as stated: the vertical-blank notification is issued on the firing for
\* the last visible scanline, and exactly once in every MAC_V_TOTAL
\* consecutive firings.
C15_VblankOnLastVisible ==
    /\ [](ScanFired =>
            IF scan_fired = MAC_V_VIS - 1 THEN VblankIssued
            ELSE Times("vblank_irq") = 0 /\ Times("adb_vblank") = 0)
    /\ OncePerFrame

\* C15, amended: the vertical-blank notification is issued on the firing for
\* scanline MAC_V_VIS, the first one after the visible scanlines, and exactly
\* once in every MAC_V_TOTAL consecutive firings.
C15_VblankAfterLastVisible ==
    /\ [](ScanFired =>
            IF scan_fired = MAC_V_VIS THEN VblankIssued
            ELSE Times("vblank_irq") = 0 /\ Times("adb_vblank") = 0)
    /\ OncePerFrame

\* The second vertical-blank notification since power-on, a frame after the
\* first.
C15_Witness ==
    /\ ScanFired
    /\ scan_fired = MAC_V_VIS
    /\ VblankIssued
    /\ m_irq_count = 2
    /\ scan_since_vblank = 0

----------------------------------------------------------------------------
(* Properties: mouse quadrature *)

\* |x| and the sign of x.
Abs(x) == IF x < 0 THEN -x ELSE x
Sgn(x) == IF x < 0 THEN -1 ELSE IF x > 0 THEN 1 ELSE 0

\* C16: on each poll and for each axis, when the raw sample changed from p to
\* s the amount d added to the remainder counter is s - p modulo 256 with
\* |d| <= 128, the stored last sample becomes s, and an unchanged sample adds
\* nothing; the counter is left at the old value plus d, less the unit the
\* same poll drains.
C16_WrapCorrectedDelta ==
    [][(last_op' = "mouse_callback") =>
          \A a \in Axes :
              LET p == m_mouse_last_m[a]
                  s == mouse_raw[a]
                  d == mouse_diff'[a]
              IN  /\ (d - (s - p)) % 256 = 0
                  /\ Abs(d) <= 128
                  /\ (s = p) => (d = 0)
                  /\ m_mouse_last_m'[a] = s
                  /\ m_mouse_count'[a] + Sgn(m_mouse_count[a] + d) = m_mouse_count[a] + d]_vars

\* A poll saw the X sample go from 0 to 129: the raw difference 129 was
\* corrected to -127.
C16_Witness ==
    /\ last_op = "mouse_callback"
    /\ m_mouse_last_m[0] = 129
    /\ mouse_diff[0] = -127
    /\ m_mouse_count[0] = -126

\* C17: each poll moves each axis's remainder (the counter with the poll's
\* delta added) by at most one unit, toward zero and never past it; a
\* quadrature pulse (m_mouse_last toggled, the DCD line written) is emitted
\* exactly for the axes that drained a unit, and the serial bits of the other
\* axis are left as they were; with the raw inputs held constant a remainder of
\* n is one unit nearer zero after each poll, so it is drained after |n| polls,
\* and a drained axis emits no pulse.
C17_DrainOneUnitPerPoll ==
    [][(last_op' = "mouse_callback") =>
          \A a \in Axes :
              LET n == m_mouse_count[a] + mouse_diff'[a]
              IN  /\ Abs(m_mouse_count'[a]) = (IF n = 0 THEN 0 ELSE Abs(n) - 1)
                  /\ Sgn(m_mouse_count'[a]) \in {0, Sgn(n)}
                  /\ mouse_pulse'[a] <=> (n # 0)
                  /\ IF n # 0
                     THEN /\ m_mouse_last'[a] = 1 - m_mouse_last[a]
                          /\ scc_dcd'[a] = m_mouse_last[a]
                     ELSE /\ m_mouse_last'[a] = m_mouse_last[a]
                          /\ m_mouse_bit'[a] = m_mouse_bit[a]
                          /\ scc_dcd'[a] = scc_dcd[a]
                  /\ (mouse_raw[a] = m_mouse_last_m[a]) => (n = m_mouse_count[a])]_vars

\* A poll drained the last unit of the X remainder and pulsed X only, while
\* the Y axis, already drained, kept its bits.
C17_Witness ==
    /\ last_op = "mouse_callback"
    /\ mouse_diff = [a \in Axes |-> 0]
    /\ m_mouse_count = [a \in Axes |-> 0]
    /\ mouse_pulse[0]
    /\ ~mouse_pulse[1]
    /\ scc_dcd[1] # -1

----------------------------------------------------------------------------
(* Specification: YMF278B register writes *)

\* The slots and the data a behaviour writes to each parameter group of them:
\* every group of the first slot, wave number, octave and key of the last one;
\* wave numbers whose headers skip the attack (1) and do not (2); octave -8 and
\* octave 1 with pseudo reverb; key-on and key-off.
WrittenSlots == {0, 23}

WrittenGroups(n) == IF n = 0 THEN 0 .. 9 ELSE {0, 2, 4}

GroupData(g) ==
    CASE g = 0 -> {1, 2}
      [] g = 1 -> {3}
      [] g = 2 -> {128, 24}
      [] g = 3 -> {65}
      [] g = 4 -> {128, 0}
      [] g = 5 -> {27}
      [] g = 6 -> {242}
      [] g = 7 -> {52}
      [] g = 8 -> {247}
      [] g = 9 -> {5}

\* Writes outside the slot range: <<reg, data>>.
OtherWrites == {<<2, 4>>, <<5, 1>>, <<6, 85>>, <<248, 9>>, <<250, 1>>}

InitOpl4 ==
    /\ InitState
    /\ InitConfig({"mac128k"})
    /\ floppy_type = [d \in Drives |-> "MFD51W"]
    /\ chip_is(device_reset_on(ZeroChip))
    /\ cw_reg = -1
    /\ cw_data = -1
    /\ cw_before = <<>>
    /\ cw_count = 0
    /\ stream_start
    /\ host_start

NextOpl4 ==
    \/ \E n \in WrittenSlots : \E g \in WrittenGroups(n) : \E d \in GroupData(g) : C_w(slot_reg(n, g), d)
    \/ \E w \in OtherWrites : C_w(w[1], w[2])
    \/ device_reset

SpecOpl4 == InitOpl4 /\ [][NextOpl4]_vars

\* One voice, slot 0, programmed before the behaviour starts and then keyed and
\* played.  Registers of slot 0: 8 wave, 56 octave and pseudo-reverb, 104 key-on,
\* 152 AR/D1R, 176 DL/D2R, 200 RC/RR.
VoicePrograms ==
    {<<<<152, 240>>, <<200, 255>>>>,                            \* instant attack, no decay
     <<<<152, 255>>, <<176, 31>>, <<200, 255>>>>,               \* instant attack, decay to DL 1
     <<<<152, 224>>, <<200, 47>>>>,                             \* attack rate 60, no decay
     <<<<56, 24>>, <<152, 239>>, <<176, 31>>, <<200, 47>>>>,    \* the same with reverb and decay
     <<<<56, 128>>, <<152, 240>>>>,                             \* octave 8
     <<<<56, 128>>, <<152, 240>>, <<104, 128>>, <<104, 0>>>>,   \* keyed on and off at octave 8
     <<<<56, 24>>, <<152, 239>>, <<176, 31>>, <<200, 47>>,
       <<104, 128>>, <<104, 0>>>>,                              \* reverb, keyed on and off
     <<<<8, 3>>>>}                                              \* the looped wave

RECURSIVE programmed(_, _, _)
programmed(c, ws, i) ==
    IF i > Len(ws) THEN [c EXCEPT !.cw_rewrites = <<>>, !.status_LD = FALSE]
    ELSE programmed(C_w_on(c, ws[i][1], ws[i][2]), ws, i + 1)

\* Key-on, key-off, and octave 1 without pseudo-reverb and with another F-number.
VoiceWrites == {<<104, 128>>, <<104, 0>>, <<56, 18>>}

\* Bounds on the writes and on the output samples of one behaviour.
MaxVoiceWrites == 2

MaxSamples == 20

UpdateSizes == {1, 3}

InitVoice ==
    /\ InitState
    /\ InitConfig({"mac128k"})
    /\ floppy_type = [d \in Drives |-> "MFD51W"]
    /\ \E ws \in VoicePrograms : chip_is(programmed(device_reset_on(ZeroChip), ws, 1))
    /\ cw_reg = -1
    /\ cw_data = -1
    /\ cw_before = <<>>
    /\ cw_count = 0
    /\ stream_start
    /\ host_start

NextVoice ==
    \/ \E w \in VoiceWrites : cw_count < MaxVoiceWrites /\ C_w(w[1], w[2])
    \/ \E n \in UpdateSizes : strm_samples + n <= MaxSamples /\ sound_stream_update(n)

SpecVoice == InitVoice /\ [][NextVoice]_vars

\* The chip after reset, no voice playing, over a longer run of stream updates.
MaxFmSamples == 200

FmUpdateSizes == {1, 2, 5}

InitFm ==
    /\ InitState
    /\ InitConfig({"mac128k"})
    /\ floppy_type = [d \in Drives |-> "MFD51W"]
    /\ chip_is(device_reset_on(ZeroChip))
    /\ cw_reg = -1
    /\ cw_data = -1
    /\ cw_before = <<>>
    /\ cw_count = 0
    /\ stream_start
    /\ host_start

NextFm == \E n \in FmUpdateSizes : strm_samples + n <= MaxFmSamples /\ sound_stream_update(n)

SpecFm == InitFm /\ [][NextFm]_vars

----------------------------------------------------------------------------
(* Properties: YMF278B register writes *)

SlotFields == DOMAIN ZeroSlot

\* Phase and envelope state of a slot, recomputed from its parameters.
DerivedFields == {"step", "stepptr", "active", "env_step", "env_vol", "env_vol_step",
                  "env_vol_lim", "env_preverb"}

\* What the header of a wave number determines: sample format, addresses and
\* the parameters of groups 5 .. 9.
HeaderFields == {"bits", "startaddr", "loopaddr", "endaddr",
                 "LFO", "VIB", "AR", "D1R", "DL", "D2R", "RC", "RR", "AM"}

\* The parameters of a group, and for the wave number what is derived from it.
GroupFields(g) ==
    CASE g = 0 -> {"wave"} \cup HeaderFields
      [] g = 1 -> {"wave", "F_NUMBER"}
      [] g = 2 -> {"F_NUMBER", "preverb", "octave"}
      [] g = 3 -> {"TL", "LD"}
      [] g = 4 -> {"CH", "pan", "DAMP", "KEY_ON"}
      [] g = 5 -> {"LFO", "VIB"}
      [] g = 6 -> {"AR", "D1R"}
      [] g = 7 -> {"DL", "D2R"}
      [] g = 8 -> {"RC", "RR"}
      [] g = 9 -> {"AM"}

\* The registers a write to reg may change in the register file: reg itself and,
\* for a wave number, the registers of groups 5 .. 9 of the same slot.
GroupRegs(reg) ==
    {reg} \cup (IF (reg - 8) \div 24 = 0
                THEN {8 + ((reg - 8) % 24) + g * 24 : g \in 5 .. 9}
                ELSE {})

\* C18: a C_w write to a register reg in 0x08 .. 0xf7 changes no slot but slot
\* (reg - 8) mod 24, and of that slot only the parameters of group
\* (reg - 8) div 24 and the state derived from them (phase and envelope state;
\* for the wave number also what its header determines); a write to any other
\* register changes no slot.
C18_SlotDemux ==
    [][last_op' = "C_w" =>
         IF cw_reg' >= 8 /\ cw_reg' <= 247
         THEN LET n == (cw_reg' - 8) % 24
                  g == (cw_reg' - 8) \div 24
              IN  /\ \A m \in SlotNums \ {n} : m_slots'[m] = m_slots[m]
                  /\ \A f \in SlotFields \ (GroupFields(g) \cup DerivedFields) :
                        m_slots'[n][f] = m_slots[n][f]
                  /\ \A r \in PcmRegs \ GroupRegs(cw_reg') : m_pcmregs'[r] = m_pcmregs[r]
         ELSE m_slots' = m_slots]_vars

\* A key-on of slot 23 after slot 0 was keyed on: slot 0 keeps its voice.
C18_Witness ==
    /\ last_op = "C_w"
    /\ cw_reg = 8 + 23 + 4 * 24
    /\ cw_before.active = 0
    /\ m_slots[23].active = 1
    /\ m_slots[0].active = 1
    /\ m_slots[0].KEY_ON = 1

\* The last step was a write to the wave-number register of a slot.
WaveWrite == last_op' = "C_w" /\ cw_reg' >= 8 /\ cw_reg' <= 31

\* The slot it addressed, before and after, and the header of its new wave number.
WaveSlot == m_slots[cw_reg' - 8]

WaveSlotAfter == m_slots'[cw_reg' - 8]

WaveHeader == header(wave_ram', WaveSlotAfter.wave, m_wavetblhdr')

\* Sample format and addresses come from header bytes 0 .. 6.
FormatAndAddresses(s, p) ==
    /\ s.bits = p[0] \div 64
    /\ s.startaddr = u32((p[0] % 64) * 65536 + p[1] * 256 + p[2])
    /\ s.loopaddr = <<p[3] * 256 + p[4], 0>>
    /\ s.endaddr[2] = 0
    /\ (65536 - s.endaddr[1]) % 65536 = p[5] * 256 + p[6]

\* Every nested write went to a register of the same slot, with a header byte,
\* and the register file holds that byte.
RewritesStored(p) ==
    \A k \in 1 .. Len(cw_rewrites') :
        /\ (cw_rewrites'[k][1] - 8) % 24 = cw_reg' - 8
        /\ cw_rewrites'[k][2] \in {p[i] : i \in 0 .. 11}
        /\ m_pcmregs'[cw_rewrites'[k][1]] = cw_rewrites'[k][2]

\* C19 as stated: a wave-number write fetches the header, sets bit depth and
\* start/loop/end addresses and re-writes six registers of the same slot from
\* header bytes through C_w, so that the register file holds them.
C19_SixRegistersRewritten ==
    [][WaveWrite =>
         /\ FormatAndAddresses(WaveSlotAfter, WaveHeader)
         /\ Len(cw_rewrites') = 6
         /\ RewritesStored(WaveHeader)]_vars

\* C19, amended: it re-writes five registers, those of groups 5 .. 9 of the same
\* slot, from header bytes 7 .. 11 in this order; the register file and the
\* decoded parameters hold these bytes afterwards.
C19_FiveRegistersRewritten ==
    [][WaveWrite =>
         /\ FormatAndAddresses(WaveSlotAfter, WaveHeader)
         /\ cw_rewrites' = [k \in 1 .. 5 |-> <<cw_reg' + (k + 4) * 24, WaveHeader[k + 6]>>]
         /\ RewritesStored(WaveHeader)
         /\ WaveSlotAfter.LFO * 8 + WaveSlotAfter.VIB = WaveHeader[7] % 64
         /\ WaveSlotAfter.AR * 16 + WaveSlotAfter.D1R = WaveHeader[8]
         /\ WaveSlotAfter.DL * 16 + WaveSlotAfter.D2R = WaveHeader[9]
         /\ WaveSlotAfter.RC * 16 + WaveSlotAfter.RR = WaveHeader[10]
         /\ WaveSlotAfter.AM = WaveHeader[11] % 8]_vars

\* Wave number 2 written to slot 0: its attack/decay register holds header byte 8.
C19_Witness ==
    /\ last_op = "C_w"
    /\ cw_reg = 8
    /\ cw_data = 2
    /\ Len(cw_rewrites) = 5
    /\ m_slots[0].wave = 2
    /\ m_pcmregs[8 + 6 * 24] = RomByte(2 * 12 + 8)
    /\ m_pcmregs[8 + 6 * 24] # 0
    /\ m_slots[0].AR = m_pcmregs[8 + 6 * 24] \div 16

\* The voice restarts: sample position 0, reverb latch clear, envelope at Attack,
\* or past it with the volume at 0 where the attack rate is immediate.
Retriggered(s) ==
    /\ s.stepptr = u32(0)
    /\ s.env_preverb = 0
    /\ \/ s.env_step = 0 /\ s.env_vol = EnvOff
       \/ compute_rate(s, s.AR) = 63 /\ s.env_step \in {1, 2} /\ s.env_vol = u32(0)

\* Phase and envelope state of a slot stay as they were.
VoiceUnchanged(s, t) == \A f \in DerivedFields : t[f] = s[f]

\* C20 as stated: after a wave-number write a slot with the key on is
\* retriggered; with the key off an active voice goes to the Release phase as
\* for a key-off, and an inactive one is left unchanged.
C20_ReleasedWhenKeyOff ==
    [][WaveWrite =>
         IF WaveSlot.KEY_ON # 0 THEN Retriggered(WaveSlotAfter)
         ELSE IF WaveSlot.active # 0
         THEN WaveSlotAfter.env_step = 4 /\ WaveSlotAfter.active # 0
         ELSE VoiceUnchanged(WaveSlot, WaveSlotAfter)]_vars

\* C20, amended: with the key off an active voice is deactivated at once: its
\* envelope goes to the end of the Release phase (env_step 5), the volume to
\* its minimum and the active flag to 0.
C20_DeactivatedWhenKeyOff ==
    [][WaveWrite =>
         IF WaveSlot.KEY_ON # 0 THEN Retriggered(WaveSlotAfter)
         ELSE IF WaveSlot.active # 0
         THEN /\ WaveSlotAfter.env_step = 5
              /\ WaveSlotAfter.active = 0
              /\ WaveSlotAfter.env_vol = EnvOff
              /\ WaveSlotAfter.env_vol_step = u32(0)
              /\ WaveSlotAfter.env_vol_lim = u32(0)
         ELSE VoiceUnchanged(WaveSlot, WaveSlotAfter)]_vars

\* A wave number written to a slot that was keyed off while still sounding.
C20_Witness ==
    /\ last_op = "C_w"
    /\ cw_reg >= 8
    /\ cw_reg <= 31
    /\ cw_before.KEY_ON = 0
    /\ cw_before.active = 1
    /\ m_slots[cw_reg - 8].env_step = 5
    /\ m_slots[cw_reg - 8].active = 0

----------------------------------------------------------------------------
(* Properties: YMF278B envelopes and stream updates *)

\* The slot a write to a slot register addresses, before and after the write.
KeyWrite == last_op' = "C_w" /\ cw_reg' >= 8 /\ cw_reg' <= 247 /\ group(cw_reg') = 4

KeySlot == m_slots[snum(cw_reg')]

KeySlotAfter == m_slots'[snum(cw_reg')]

\* Envelope phases, the values of env_step.
Attack == 0
Decay1 == 1
Decay2 == 2
Decay2Done == 3
Release == 4
ReleaseDone == 5

\* C21: a key-on write (bit 7 of the group-4 register) to a slot whose key-on
\* flag is clear leaves, when the write returns, the sample position at 0 and
\* the envelope in Attack; with an attack rate of 63 the envelope is already
\* in Decay 1 with env_vol = 0, and if the decay level is 0 as well, in Decay 2.
C21_KeyOnEntersAttack ==
    [][KeyWrite /\ cw_data' >= 128 /\ KeySlot.KEY_ON = 0 =>
         /\ KeySlotAfter.KEY_ON = 1
         /\ KeySlotAfter.stepptr = u32(0)
         /\ IF compute_rate(KeySlotAfter, KeySlotAfter.AR) # 63
            THEN KeySlotAfter.env_step = Attack /\ KeySlotAfter.env_vol = EnvOff
            ELSE /\ KeySlotAfter.env_vol = u32(0)
                 /\ KeySlotAfter.env_step = IF KeySlotAfter.DL # 0 THEN Decay1 ELSE Decay2]_vars

\* A key-on with attack rate 63 and decay level 0 has just been written.
C21_Witness ==
    /\ last_op = "C_w"
    /\ cw_reg = 104
    /\ cw_data >= 128
    /\ cw_before.KEY_ON = 0
    /\ m_slots[0].AR = 15
    /\ m_slots[0].DL = 0
    /\ m_slots[0].env_step = Decay2
    /\ m_slots[0].env_vol = u32(0)

\* C22 as stated: a key-off write (bit 7 of the group-4 register clear) moves
\* the envelope to Release whatever phase it was in, and clears the key-on flag.
C22_KeyOffAlwaysReleases ==
    [][KeyWrite /\ cw_data' < 128 =>
         KeySlotAfter.env_step = Release /\ KeySlotAfter.KEY_ON = 0]_vars

\* C22, amended: a key-off write clears the key-on flag; it moves the envelope
\* of an active voice to Release, whatever phase it was in, and leaves the
\* phase and envelope of an inactive voice as they were.
C22_KeyOffReleasesActive ==
    [][KeyWrite /\ cw_data' < 128 =>
         /\ KeySlotAfter.KEY_ON = 0
         /\ IF KeySlot.active # 0
            THEN KeySlotAfter.env_step = Release /\ KeySlotAfter.active # 0
            ELSE VoiceUnchanged(KeySlot, KeySlotAfter)]_vars

\* A key-off has just been written to a voice that was in its Attack.
C22_Witness ==
    /\ last_op = "C_w"
    /\ cw_reg = 104
    /\ cw_data < 128
    /\ cw_before.KEY_ON = 1
    /\ cw_before.active = 1
    /\ m_slots[0].env_step = Release
    /\ m_slots[0].KEY_ON = 0
    /\ gt32(m_slots[0].env_vol, u32(0))
    /\ strm_samples > 0

\* C24: after device_reset and any sequence of register writes and stream
\* updates, the env_vol of every voice is a volume between 0 (full level) and
\* 256<<23 (silence, the value a voice rests at): no per-sample addition takes
\* it below 0, where it wraps to the top of the 32-bit range, or past 256<<23.
C24_EnvVolInRange ==
    \A n \in SlotNums : ~gt32(m_slots[n].env_vol, EnvOff)

\* A stream update of one output sample has just run.
OneSample == last_op' = "sound_stream_update" /\ Len(fm_trace') = 1

\* a + b >= c for 32-bit values a, b, c, the sum taken without wrapping.
SumReaches(a, b, c) ==
    LET lo == a[2] + b[2]
        hi == a[1] + b[1] + (lo \div 65536)
    IN  hi > c[1] \/ (hi = c[1] /\ (lo % 65536) >= c[2])

\* The addition of this sample takes the volume of slot s to its phase's limit
\* or past it: down to 0 in Attack, where the step is the complement of a
\* decrement, up to env_vol_lim in the decay phases.
LimitReached(s) ==
    IF s.env_step = Attack
    THEN s.env_vol_step # u32(0) /\ ~gt32(s.env_vol, sub32(u32(0), s.env_vol_step))
    ELSE SumReaches(s.env_vol, s.env_vol_step, s.env_vol_lim)

TowardLimit(s, t) ==
    IF s.env_step = Attack THEN ~gt32(t.env_vol, s.env_vol) ELSE ~gt32(s.env_vol, t.env_vol)

\* C23: in every sample of an active voice the envelope leaves its phase if
\* and only if that sample's addition takes env_vol to the phase's limit or
\* across it, and while it stays in the phase env_vol only moves toward the
\* limit.
C23_MonotonicExactAdvance ==
    [][OneSample =>
         \A n \in SlotNums :
             m_slots[n].active # 0 =>
                 /\ (m_slots'[n].env_step # m_slots[n].env_step) <=> LimitReached(m_slots[n])
                 /\ m_slots'[n].env_step = m_slots[n].env_step
                        => TowardLimit(m_slots[n], m_slots'[n])]_vars

\* C25: the active flag of every voice is set exactly when its octave is not 8
\* and its envelope is in no terminal phase (Decay2Done, ReleaseDone).
C25_ActiveIffSounding ==
    \A n \in SlotNums :
        m_slots[n].active # 0
            <=> (m_slots[n].octave # 8 /\ m_slots[n].env_step \notin {Decay2Done, ReleaseDone})

\* A voice keyed on and off while its octave was 8 has just been given octave 1:
\* it is active, in Decay 2, with the key off.
C25_Witness ==
    /\ last_op = "C_w"
    /\ cw_reg = 56
    /\ cw_before.active = 0
    /\ cw_before.KEY_ON = 0
    /\ m_slots[0].octave = 1
    /\ m_slots[0].env_step = Decay2
    /\ m_slots[0].active = 1

\* What the voices added to the four mix accumulators in the samples of the
\* last stream update; a voice the update skipped has no samples here.
Silent == <<0, 0, 0, 0>>

\* C26: after a stream update, a voice whose octave is 8 has added zero to all
\* four mix accumulators in every sample, and so has a voice in every sample it
\* began inactive, the samples that follow its deactivation within the same
\* update included.
C26_InactiveVoiceAddsZero ==
    last_op = "sound_stream_update" =>
        \A n \in SlotNums :
            \A j \in DOMAIN mix_trace[n] :
                (m_slots[n].octave = 8 \/ mix_trace[n][j].active = 0)
                    => mix_trace[n][j].add = Silent

\* An update of three samples in which voice 0 was heard in the first sample
\* and went through the third one after its envelope had ended.
C26_Witness ==
    /\ last_op = "sound_stream_update"
    /\ Len(mix_trace[0]) = 3
    /\ mix_trace[0][1].add # Silent
    /\ mix_trace[0][3].active = 0
    /\ m_slots[0].active = 0

\* The step is a register write that retriggers voice n: a key-on written to
\* it with the key off, or a wave number written to it with the key on.
RetriggerWrite(n) ==
    /\ last_op' = "C_w"
    /\ cw_reg' >= 8
    /\ cw_reg' <= 247
    /\ snum(cw_reg') = n
    /\ \/ group(cw_reg') = 4 /\ cw_data' >= 128 /\ m_slots[n].KEY_ON = 0
       \/ group(cw_reg') = 0 /\ m_slots[n].KEY_ON # 0

\* The step writes new data with an octave other than 8 to the group-2
\* register (F-number high bits, pseudo-reverb, octave) of voice n.
OctaveWrite(n) ==
    /\ last_op' = "C_w"
    /\ cw_reg' >= 8
    /\ cw_reg' <= 247
    /\ snum(cw_reg') = n
    /\ group(cw_reg') = 2
    /\ cw_data' # m_pcmregs[cw_reg']
    /\ cw_data' \div 16 # 8

LatchCleared(n) == m_slots[n].env_preverb = 1 /\ m_slots'[n].env_preverb = 0

\* C27 as stated: a set reverb latch (env_preverb) is cleared only by a
\* retrigger of its voice, by no other register write and by no sample update.
C27_LatchClearedOnlyByRetrigger ==
    [][\A n \in SlotNums : LatchCleared(n) => RetriggerWrite(n)]_vars

\* C27, amended: a set reverb latch is cleared only by a retrigger of its
\* voice or by a group-2 write of changed data with an octave other than 8.
C27_LatchClearedByRetriggerOrOctaveWrite ==
    [][\A n \in SlotNums : LatchCleared(n) => RetriggerWrite(n) \/ OctaveWrite(n)]_vars

\* A group-2 write has just cleared the latch of a playing voice.
C27_Witness ==
    /\ last_op = "C_w"
    /\ cw_reg = 56
    /\ cw_before.env_preverb = 1
    /\ cw_before.active = 1
    /\ m_slots[0].env_preverb = 0
    /\ m_slots[0].active = 1

\* The level v lies past the -18 dB threshold of the pseudo-reverb, within the
\* volume range: (6*8)<<23 < v <= 256<<23.
PastReverbThreshold(v) == gt32(v, EnvLevel(6)) /\ ~gt32(v, EnvOff)

\* C28: with pseudo-reverb enabled and damping off, a register write or a
\* sample sets the reverb latch only when the level of the voice is past the
\* -18 dB threshold; a voice whose non-instant attack ends in this sample
\* enters Decay 1 with its programmed decay rate and the latch clear.
C28_ReverbOnlyPastThreshold ==
    [][last_op' = "C_w" \/ OneSample =>
         \A n \in SlotNums :
             /\ m_slots[n].env_preverb = 0 /\ m_slots'[n].env_preverb = 1
                    => PastReverbThreshold(m_slots'[n].env_vol)
             /\ (/\ m_slots[n].active # 0
                 /\ m_slots[n].env_step = Attack
                 /\ m_slots'[n].env_step = Decay1
                 /\ m_slots'[n].DAMP = 0
                 /\ last_op' = "sound_stream_update")
                    => /\ m_slots'[n].env_preverb = 0
                       /\ m_slots'[n].env_vol_step
                              = decay_step(compute_rate(m_slots'[n], m_slots'[n].D1R))]_vars

\* Sample j of voice n in the last stream update began at or past the end address.
PastEnd(n, j) == ~gt32(m_slots[n].endaddr, mix_trace[n][j].before)

\* C29: a sample that begins with stepptr at or past the end address replaces
\* it, once, by stepptr - endaddr + loopaddr in 32-bit arithmetic, and fetches
\* from the new position; any other sample fetches from stepptr as it is.
\* With start address 0 and the end address above the loop address the new
\* position is below the old one and not below the loop address, so nothing
\* wrapped.
C29_LoopWrap ==
    last_op = "sound_stream_update" =>
        \A n \in SlotNums :
            \A j \in DOMAIN mix_trace[n] :
                /\ mix_trace[n][j].pos
                       = IF PastEnd(n, j)
                         THEN add32(sub32(mix_trace[n][j].before, m_slots[n].endaddr),
                                    m_slots[n].loopaddr)
                         ELSE mix_trace[n][j].before
                /\ m_slots[n].bits = 0
                       => mix_trace[n][j].sample
                              = int16(256 * read_byte(wave_ram,
                                                      m_slots[n].startaddr[1] * 65536
                                                      + m_slots[n].startaddr[2]
                                                      + mix_trace[n][j].pos[1]))
                /\ (/\ PastEnd(n, j)
                    /\ m_slots[n].startaddr = u32(0)
                    /\ gt32(m_slots[n].endaddr, m_slots[n].loopaddr))
                       => /\ gt32(mix_trace[n][j].before, mix_trace[n][j].pos)
                          /\ ~gt32(m_slots[n].loopaddr, mix_trace[n][j].pos)

\* The looped wave (loop address 1, end address 4) has just wrapped from
\* position 4 to position 1.
C29_Witness ==
    /\ last_op = "sound_stream_update"
    /\ m_slots[0].startaddr = u32(0)
    /\ m_slots[0].loopaddr = <<1, 0>>
    /\ m_slots[0].endaddr = <<4, 0>>
    /\ \E j \in DOMAIN mix_trace[0] :
           mix_trace[0][j].before = <<4, 0>> /\ mix_trace[0][j].pos = <<1, 0>>

\* floor(n * FM_STEP / 2^24) for n up to 1000, where n * FM_STEP fits the
\* integers of the checker.
ExtraClocksDue(n) == (n * FM_STEP) \div 16777216

\* C30: m_fm_pos starts at 0; after N output samples the number of extra FM
\* clocks is floor(N * FM_STEP / 2^24), within one; every sample clocks the FM
\* engine once or twice, the extra clock before the regular one; and m_fm_pos
\* is below 2^24 after every sample.
C30_FmResampling ==
    /\ fm_extra >= ExtraClocksDue(strm_samples) - 1
    /\ fm_extra <= ExtraClocksDue(strm_samples) + 1
    /\ \A i \in DOMAIN fm_trace : fm_trace[i] \in {<<"regular">>, <<"extra", "regular">>}
    /\ m_fm_pos >= 0
    /\ m_fm_pos < 16777216

\* 196 output samples have consumed 24 extra FM clocks, the last of them in
\* the last sample.
C30_Witness ==
    /\ last_op = "sound_stream_update"
    /\ strm_samples = 196
    /\ fm_extra = 24
    /\ fm_trace[Len(fm_trace)] = <<"extra", "regular">>

----------------------------------------------------------------------------
(* The PWM length counter and its de-scrambling table *)

InitLfsr ==
    /\ InitState
    /\ opl4_absent
    /\ InitConfig({"mac512ke"})
    /\ floppy_type = [d \in Drives |-> IF d = 1 THEN "OAD34V" ELSE "MFD51W"]

NextLfsr ==
    \/ \E v \in 0..63 : lfsr_load(v)
    \/ lfsr_clock

SpecLfsr == InitLfsr /\ [][NextLfsr]_vars

\* C36: value_to_length de-scrambles the 6-bit length counter: a counter
\* loaded with a non-zero v is at 0x20 after at least one clock exactly when
\* it has been clocked value_to_length[v] times, the entry of 0 is 0, and the
\* table is a permutation of 0..63.
C36_TableDescramblesLfsr ==
    /\ (lfsr.loaded # -1) =>
          (lfsr_hit <=> (lfsr.loaded # 0 /\ lfsr.steps = pulse_length(lfsr.loaded)))
    /\ pulse_length(0) = 0
    /\ {value_to_length[i] : i \in 1..64} = 0..63
    /\ Len(value_to_length) = 64

\* The counter loaded with 0x20 itself has gone through its whole period.
C36_Witness == lfsr.loaded = LfsrTarget /\ lfsr.steps = 63 /\ lfsr_hit

----------------------------------------------------------------------------
(* The attenuation index of the mix *)

\* Key-on with pan codes 8 and 15, key-off, and the total level 127.
GainWrites == {<<104, 136>>, <<104, 143>>, <<104, 0>>, <<80, 254>>}

MaxGainWrites == 2

MaxGainSamples == 18

NextGain ==
    \/ \E w \in GainWrites : cw_count < MaxGainWrites /\ C_w(w[1], w[2])
    \/ \E n \in UpdateSizes : strm_samples + n <= MaxGainSamples /\ sound_stream_update(n)

SpecGain == InitVoice /\ [][NextGain]_vars

\* The two indices a sample of the slot would read m_volume at.
GainIndices(slot) ==
    {volume_index(slot, m_pan_left(slot.pan)), volume_index(slot, m_pan_right(slot.pan))}

\* The size of m_volume, line 911.
VolumeSize == 1024

\* C38: in every reachable voice state the index TL + pan attenuation +
\* (env_vol >> 23) is inside the 1024 entries of m_volume, and an index of 256
\* or more gives a gain of zero, so nothing is added to the mix; the same for
\* the largest 7-bit TL, every pan code and the largest env_vol >> 23.
C38_VolumeIndexInTable ==
    /\ \A i \in SlotNums : \A x \in GainIndices(m_slots[i]) :
          /\ x \in 0..(VolumeSize - 1)
          /\ (x >= 256) => (m_volume(x) = 0 /\ scaled(32767, x) = 0 /\ scaled(-32768, x) = 0)
    /\ \A i \in SlotNums : m_slots[i].TL \in 0..127 /\ m_slots[i].pan \in 0..15
                           /\ m_slots[i].env_vol[1] \in 0..65535
    /\ \A pan \in 0..15 : m_pan_left(pan) \in 0..256 /\ m_pan_right(pan) \in 0..256
    /\ 127 + 256 + (65535 \div 128) < VolumeSize
    /\ \A x \in 256..(VolumeSize - 1) : m_volume(x) = 0

\* An active voice at the largest index: TL 127, pan code 8 and an env_vol
\* whose nine high bits are all set.
C38_Witness ==
    /\ m_slots[0].active # 0
    /\ GainIndices(m_slots[0]) = {127 + 256 + 511}

----------------------------------------------------------------------------
(* Key-on written to a slot whose key is on *)

\* Slot 0 keyed on in a gradual attack, past an instant attack, with
\* pseudo-reverb, at octave 8 with the attack rate set to 15 afterwards, and
\* not keyed on.
KeyPrograms ==
    {<<<<152, 224>>, <<200, 47>>, <<104, 128>>>>,
     <<<<152, 240>>, <<200, 255>>, <<104, 128>>>>,
     <<<<56, 24>>, <<152, 239>>, <<176, 31>>, <<200, 47>>, <<104, 128>>>>,
     <<<<56, 128>>, <<104, 128>>, <<152, 240>>>>,
     <<<<152, 240>>>>}

\* Key-on, alone, with damping, and with the DO1 output and pan 5; key-off.
KeyWrites == {<<104, 128>>, <<104, 192>>, <<104, 149>>, <<104, 0>>}

MaxKeyWrites == 3

MaxKeySamples == 4

InitKey ==
    /\ InitState
    /\ InitConfig({"mac128k"})
    /\ floppy_type = [d \in Drives |-> "MFD51W"]
    /\ \E ws \in KeyPrograms : chip_is(programmed(device_reset_on(ZeroChip), ws, 1))
    /\ cw_reg = -1
    /\ cw_data = -1
    /\ cw_before = <<>>
    /\ cw_count = 0
    /\ stream_start
    /\ host_start

NextKey ==
    \/ \E w \in KeyWrites : cw_count < MaxKeyWrites /\ C_w(w[1], w[2])
    \/ \E n \in UpdateSizes : strm_samples + n <= MaxKeySamples /\ sound_stream_update(n)

SpecKey == InitKey /\ [][NextKey]_vars

\* A key-on is being written to a slot whose key-on flag is set.
KeyOnAgain == KeyWrite /\ cw_data' >= 128 /\ KeySlot.KEY_ON # 0

\* Bit 6 of a group-4 register byte.
DampBit(x) == (x \div 64) % 2

\* The write changes the damping bit of the register.
DampChanged == DampBit(cw_data') # DampBit(m_pcmregs[cw_reg'])

\* The fields of a slot other than the three the group-4 byte carries and the
\* envelope state compute_envelope works on.
KeyKeptFields ==
    {"wave", "F_NUMBER", "octave", "preverb", "LD", "TL", "LFO", "VIB", "AM",
     "AR", "D1R", "DL", "D2R", "RC", "RR", "step", "stepptr", "KEY_ON", "bits",
     "startaddr", "loopaddr", "endaddr"}

EnvelopeFields == {"active", "env_step", "env_vol", "env_vol_step", "env_vol_lim", "env_preverb"}

\* What the write does in any case: no retrigger, the three fields loaded.
KeyOnAgainLoads ==
    /\ \A f \in KeyKeptFields : KeySlotAfter[f] = KeySlot[f]
    /\ KeySlotAfter.KEY_ON = 1
    /\ KeySlotAfter.pan = cw_data' % 16
    /\ KeySlotAfter.CH = (cw_data' \div 16) % 2
    /\ KeySlotAfter.DAMP = DampBit(cw_data')
    /\ ~DampChanged => \A f \in EnvelopeFields : KeySlotAfter[f] = KeySlot[f]

----------------------------------------------------------------------------
(* Decoded slot parameters and the register file *)

\* The register byte of a slot and group.
SlotByte(n, g) == m_pcmregs[slot_reg(n, g)]

\* The fields groups 1 .. 4 decode are the bit fields of their register bytes.
DecodedLow(n) ==
    /\ m_slots[n].F_NUMBER = (SlotByte(n, 1) \div 2) + (SlotByte(n, 2) % 8) * 128
    /\ m_slots[n].octave = SlotByte(n, 2) \div 16
    /\ m_slots[n].TL = SlotByte(n, 3) \div 2
    /\ m_slots[n].pan = SlotByte(n, 4) % 16
    /\ m_slots[n].KEY_ON = SlotByte(n, 4) \div 128

\* The same for groups 5 .. 9, the registers a wave header rewrites.
DecodedHigh(n) ==
    /\ m_slots[n].LFO = (SlotByte(n, 5) \div 8) % 8
    /\ m_slots[n].VIB = SlotByte(n, 5) % 8
    /\ m_slots[n].AR = SlotByte(n, 6) \div 16
    /\ m_slots[n].D1R = SlotByte(n, 6) % 16
    /\ m_slots[n].DL = SlotByte(n, 7) \div 16
    /\ m_slots[n].D2R = SlotByte(n, 7) % 16
    /\ m_slots[n].RC = SlotByte(n, 8) \div 16
    /\ m_slots[n].RR = SlotByte(n, 8) % 16
    /\ m_slots[n].AM = SlotByte(n, 9) % 8

\* C40: after device_reset and any C_w writes, the decoded parameter fields of
\* every slot equal the bit fields of the slot's bytes in the register file.
C40_DecodedMatchRegisters == \A n \in SlotNums : DecodedLow(n) /\ DecodedHigh(n)

----------------------------------------------------------------------------
(* The envelope advances once per output sample *)

\* The voices of VoicePrograms, one register write at most, over a run of
\* stream updates long enough for a gradual attack and a release to end.
MaxEnvWrites == 1

MaxEnvSamples == 20

NextEnv ==
    \/ \E w \in VoiceWrites : cw_count < MaxEnvWrites /\ C_w(w[1], w[2])
    \/ \E n \in UpdateSizes : strm_samples + n <= MaxEnvSamples /\ sound_stream_update(n)

SpecEnv == InitVoice /\ [][NextEnv]_vars

\* A stream update is being made; the number of its output samples.
StreamStep == last_op' = "sound_stream_update" /\ strm_samples' > strm_samples

StepSamples == strm_samples' - strm_samples

\* The voice as sample k + 1 of the update finds it, or as the update leaves
\* it when k is the last sample: the fields of the history, by name.
AfterSample(i, k, f) ==
    IF k < Len(mix_trace'[i])
    THEN mix_trace'[i][k + 1][IF f = "stepptr" THEN "before" ELSE f]
    ELSE m_slots'[i][f]

\* The same samples made in updates of one sample each.
RECURSIVE one_by_one(_, _, _)
one_by_one(slot, ram, n) ==
    IF n = 0 THEN slot ELSE one_by_one(voice_update(slot, ram, 1).slot, ram, n - 1)

\* Two results for a voice agree: in the whole envelope state, and in the
\* sample position unless the voice has ended.
InStep(s, t) ==
    /\ \A f \in EnvelopeFields : s[f] = t[f]
    /\ s.active # 0 => s.stepptr = t.stepptr

\* C31: in a stream update every voice active at its start gets, for each
\* output sample, its mix made at the envelope volume the sample found, then
\* its stepptr advanced by step, then env_vol advanced by env_vol_step once
\* (an envelope that ends on the sample rests at 256<<23); a voice inactive at
\* the start is not touched; and the samples made one update each leave the
\* envelope and the sample position of a sounding voice where one update of
\* all of them does.
C31_EnvelopeOncePerSample ==
    [][StreamStep =>
        \A i \in SlotNums :
          IF m_slots[i].active = 0
          THEN m_slots'[i] = m_slots[i] /\ mix_trace'[i] = <<>>
          ELSE /\ Len(mix_trace'[i]) = StepSamples
               /\ mix_trace'[i][1].env_vol = m_slots[i].env_vol
               /\ mix_trace'[i][1].before = m_slots[i].stepptr
               /\ \A k \in 1 .. StepSamples :
                    LET r == mix_trace'[i][k]
                    IN  /\ r.add = mix_add([m_slots[i] EXCEPT !.env_vol = r.env_vol], r.sample)
                        /\ AfterSample(i, k, "stepptr") = add32(r.pos, u32(m_slots[i].step))
                        /\ \/ AfterSample(i, k, "env_vol") = add32(r.env_vol, r.env_vol_step)
                           \/ /\ AfterSample(i, k, "active") = 0
                              /\ AfterSample(i, k, "env_vol") = EnvOff
               /\ InStep(m_slots'[i], one_by_one(m_slots[i], wave_ram, StepSamples))]_vars

\* An update of three samples of a sounding voice whose envelope moved on
\* each of them.
C31_Witness ==
    /\ last_op = "sound_stream_update"
    /\ Len(mix_trace[0]) = 3
    /\ m_slots[0].active # 0
    /\ mix_trace[0][1].env_vol_step # u32(0)
    /\ mix_trace[0][2].env_vol = add32(mix_trace[0][1].env_vol, mix_trace[0][1].env_vol_step)
    /\ mix_trace[0][3].env_vol = add32(mix_trace[0][2].env_vol, mix_trace[0][2].env_vol_step)
    /\ m_slots[0].env_vol = add32(mix_trace[0][3].env_vol, mix_trace[0][3].env_vol_step)

----------------------------------------------------------------------------
(* The end of the release *)

\* Slot 0 keyed on: past an instant attack with release rate 63, in a gradual
\* attack with release rate 63, past an instant attack with release rate 0,
\* and with pseudo-reverb in a gradual attack with release rate 0.
ReleasePrograms ==
    {<<<<152, 240>>, <<200, 255>>, <<104, 128>>>>,
     <<<<152, 224>>, <<200, 47>>, <<104, 128>>>>,
     <<<<152, 240>>, <<104, 128>>>>,
     <<<<56, 24>>, <<152, 224>>, <<104, 128>>>>}

\* Key-off, key-off with damping, key-on, and the octave register rewritten.
ReleaseWrites == {<<104, 0>>, <<104, 64>>, <<104, 128>>, <<56, 16>>}

MaxReleaseWrites == 2

\* Writes are made up to this output sample, and samples up to that one.
MaxKeyOffAt == 2

MaxReleaseSamples == 48

InitRelease ==
    /\ InitState
    /\ InitConfig({"mac128k"})
    /\ floppy_type = [d \in Drives |-> "MFD51W"]
    /\ \E ws \in ReleasePrograms : chip_is(programmed(device_reset_on(ZeroChip), ws, 1))
    /\ cw_reg = -1
    /\ cw_data = -1
    /\ cw_before = <<>>
    /\ cw_count = 0
    /\ stream_start
    /\ host_start

ReleaseWrite ==
    \E w \in ReleaseWrites :
        cw_count < MaxReleaseWrites /\ strm_samples <= MaxKeyOffAt /\ C_w(w[1], w[2])

ReleaseUpdate ==
    \E n \in UpdateSizes :
        strm_samples + n <= MaxReleaseSamples /\ sound_stream_update(n)

NextRelease == ReleaseWrite \/ ReleaseUpdate

\* A step of ReleaseUpdate, by what it does to the sample count; it is
\* enabled exactly when ReleaseUpdate is.
SamplesAsked ==
    /\ strm_samples < MaxReleaseSamples
    /\ strm_samples' \in {strm_samples + n : n \in UpdateSizes}

\* The sound system keeps asking for output samples.
SpecRelease == InitRelease /\ [][NextRelease]_vars /\ WF_strm_samples(SamplesAsked)

\* The voice is sounding in its Release with a step.
Releasing(s) == s.active # 0 /\ s.env_step = Release /\ s.env_vol_step # u32(0)

\* The voice has ended its release.
Released(s) ==
    s.active = 0 /\ s.env_step = ReleaseDone /\ s.env_vol = EnvOff /\ s.env_vol_step = u32(0)

\* One output sample of a releasing voice: env_vol moves up by a step between
\* 1 and 2^31 - 1, and the release goes on exactly if the sum is below
\* 256<<23; otherwise it has ended.
ReleaseSample(s, t) ==
    /\ gt32(EnvOff, s.env_vol_step)
    /\ IF gt32(EnvOff, add32(s.env_vol, s.env_vol_step))
       THEN Releasing(t) /\ t.env_vol = add32(s.env_vol, s.env_vol_step)
       ELSE Released(t)

\* The voice rests in its Release: no step, and env_vol below 256<<23.
Resting(s) ==
    s.active # 0 /\ s.env_step = Release /\ s.env_vol_step = u32(0) /\ gt32(EnvOff, s.env_vol)

\* A release whose step is at least that of rate 63, from an env_vol within
\* 40<<23 of its end: it ends within 38 samples.
FastRelease(s) ==
    /\ Releasing(s)
    /\ ~gt32(decay_step(63), s.env_vol_step)
    /\ gt32(s.env_vol, EnvLevel(216))
    /\ ~gt32(s.env_vol, EnvOff)

\* C39: a sounding voice in Release with a non-zero step moves env_vol towards
\* 256<<23 on every output sample and ends (ReleaseDone, inactive, env_vol =
\* 256<<23) on the sample that reaches it, so after finitely many samples; a
\* key-off that starts a release at least as fast as rate 63 within 40<<23 of
\* the end is followed, if no other write is made, by the ended voice; an
\* ended voice is left alone by the stream updates; and a release with a zero
\* step and env_vol below 256<<23 stays as it is.
C39_ReleaseEnds ==
    /\ [][StreamStep /\ StepSamples = 1 =>
            \A i \in SlotNums :
               /\ Releasing(m_slots[i]) => ReleaseSample(m_slots[i], m_slots'[i])
               /\ Resting(m_slots[i]) =>
                     Resting(m_slots'[i]) /\ m_slots'[i].env_vol = m_slots[i].env_vol]_vars
    /\ [][StreamStep =>
            \A i \in SlotNums :
               /\ Released(m_slots[i]) => m_slots'[i] = m_slots[i]
               /\ Resting(m_slots[i]) => Resting(m_slots'[i])]_vars
    /\ \A c \in 1 .. MaxReleaseWrites :
          (last_op = "C_w" /\ cw_reg = 104 /\ cw_data < 128 /\ cw_count = c
             /\ FastRelease(m_slots[0]))
          ~> (Released(m_slots[0]) \/ cw_count # c)

\* A release of rate 63 started two samples into a gradual attack has ended
\* after more than 20 samples: the voice is inactive at 256<<23.
C39_Witness ==
    /\ cw_reg = 104
    /\ cw_data = 0
    /\ cw_count = 1
    /\ Released(m_slots[0])
    /\ m_slots[0].RR = 15
    /\ m_slots[0].AR = 14
    /\ strm_samples > 20
    /\ last_op = "sound_stream_update"
    /\ mix_trace[0] # <<>>

----------------------------------------------------------------------------
(* The host interface after device_reset *)

\* The chip after reset, and with the memory address registers 3, 4 and 5
\* loaded so that m_memadr is two below the end of its range.
PortPrograms == {<<>>, <<<<3, 255>>, <<4, 255>>, <<5, 254>>>>}

\* The host interface after reset; after write(2, 0x05), which selects FM
\* register 0x105; after write(3, 0x02) as well, which sets NEW2; and after
\* write(4, 0x06) as well, which selects the memory data register.
HostPrograms ==
    {[m_port_AB |-> 0, m_lastport |-> 0, m_port_C |-> 0, m_next_status_id |-> FALSE,
      m_fm |-> fm_reset, m_timer_busy |-> 0],
     [m_port_AB |-> 5, m_lastport |-> 1, m_port_C |-> 0, m_next_status_id |-> FALSE,
      m_fm |-> [fm_reset EXCEPT !.busy = TRUE], m_timer_busy |-> 56],
     [m_port_AB |-> 5, m_lastport |-> 1, m_port_C |-> 0, m_next_status_id |-> TRUE,
      m_fm |-> [fm_write(fm_reset, 261, 2) EXCEPT !.busy = TRUE], m_timer_busy |-> 56],
     [m_port_AB |-> 5, m_lastport |-> 1, m_port_C |-> 6, m_next_status_id |-> TRUE,
      m_fm |-> [fm_write(fm_reset, 261, 2) EXCEPT !.busy = TRUE], m_timer_busy |-> 88]}

\* <<offset, data>>: FM address 0x05 through the second port, FM data with
\* NEW2 and NEW off, NEW2 on, and both on, PCM addresses 5, 6, 8 and 0xfa,
\* PCM data, and the two unused offsets.
PortWrites ==
    {<<2, 5>>, <<3, 0>>, <<3, 2>>, <<1, 3>>,
     <<4, 5>>, <<4, 6>>, <<4, 8>>, <<4, 250>>, <<5, 255>>,
     <<6, 1>>, <<7, 1>>}

PortReads == {0, 3, 5, 6, 7}

MaxPortSamples == 1

MaxPortAccesses == 3

InitPort ==
    /\ InitState
    /\ InitConfig({"mac128k"})
    /\ floppy_type = [d \in Drives |-> "MFD51W"]
    /\ \E ws \in PortPrograms : chip_is(programmed(device_reset_on(ZeroChip), ws, 1))
    /\ cw_reg = -1
    /\ cw_data = -1
    /\ cw_before = <<>>
    /\ cw_count = 0
    /\ stream_start
    /\ \E h \in HostPrograms :
          /\ m_port_AB = h.m_port_AB
          /\ m_lastport = h.m_lastport
          /\ m_port_C = h.m_port_C
          /\ m_next_status_id = h.m_next_status_id
          /\ m_fm = h.m_fm
          /\ m_timer_busy = h.m_timer_busy
    /\ read_ret = -1
    /\ host_access = <<>>
    /\ host_count = 0
    /\ status_id_read = FALSE

NextPort ==
    \/ \E w \in PortWrites : \E n \in {0, 1} :
          /\ host_count < MaxPortAccesses
          /\ strm_samples + n <= MaxPortSamples
          /\ write(w[1], w[2], n)
    \/ \E o \in PortReads : host_count < MaxPortAccesses /\ read(o)
    \/ \E id \in {"TIMER_BUSY_CLEAR", "TIMER_LD_CLEAR"} : device_timer(id)

SpecPort == InitPort /\ [][NextPort]_vars

----------------------------------------------------------------------------
(* Properties of the host interface *)

\* A write or a read is being made at an offset.
HostWrite(o) == last_op' = "write" /\ host_count' = host_count + 1 /\ host_access'[1] % 8 = o

HostRead(o) == last_op' = "read" /\ host_count' = host_count + 1 /\ host_access'[1] % 8 = o

\* The byte of the write being made.
HostData == host_access'[2]

\* The register file, the voices, the wave memory, the pointers and the mixing
\* levels stay as they are.
PcmStateKept ==
    UNCHANGED <<m_slots, m_pcmregs, m_wavetblhdr, m_memmode, m_memadr, m_fm_l, m_fm_r,
                m_pcm_l, m_pcm_r, status_LD, wave_ram, strm_samples>>

\* STATUS_BUSY and its timer stay as they are.
BusyKept == UNCHANGED m_timer_busy /\ m_fm'.busy = m_fm.busy

\* C33: while NEW2 is clear a write to offset 5 changes neither the register
\* file, the voices, the wave memory nor the memory pointer and does not start
\* the busy timer; a read of offset 5 returns 0 and leaves the memory pointer;
\* a write to offset 4 still loads the address latch and starts the busy timer.
C33_PcmLockedWithoutNew2 ==
    [][new2flag(m_fm) = 0 =>
         /\ HostWrite(5) => PcmStateKept /\ BusyKept /\ UNCHANGED <<m_fm, m_port_C>>
         /\ HostRead(5) => read_ret' = 0 /\ PcmStateKept /\ BusyKept
         /\ HostWrite(4) => m_port_C' = HostData /\ m_timer_busy' = 88 /\ m_fm'.busy]_vars

\* With NEW2 clear, the memory data register selected and the busy timer run
\* out, a byte has been written to offset 5: the timer is still idle and the
\* pointer where the reset left it.
C33_Witness ==
    /\ last_op = "write"
    /\ host_access = <<5, 255>>
    /\ new2flag(m_fm) = 0
    /\ m_port_C = 6
    /\ m_timer_busy = 0
    /\ ~m_fm.busy
    /\ m_memadr = 0
    /\ wave_ram = <<>>

\* The memory data register, register 6, is accessed through offset 5.
MemoryAccess == new2flag(m_fm) # 0 /\ m_port_C = 6

\* The memory address register, register 5, is written through offset 5.
MemoryLoad == new2flag(m_fm) # 0 /\ m_port_C = 5

\* The size of the address range of m_memadr: 22 bits.
MemRange == 4194304

\* C37: m_memadr is always in 0 .. 0x3fffff; a write of register 5 loads it
\* with the 22 bits of registers 3, 4 and the byte; a write or a read of
\* register 6 uses the pointer as it is and then advances it by one, from
\* 0x3fffff to 0.
C37_MemadrWraps ==
    /\ [](m_memadr \in 0 .. (MemRange - 1))
    /\ [][/\ HostWrite(5) /\ MemoryLoad =>
               m_memadr' = m_pcmregs[3] * 65536 + m_pcmregs[4] * 256 + HostData
          /\ HostWrite(5) /\ MemoryAccess =>
               /\ wave_ram' = write_byte(wave_ram, m_memadr, HostData)
               /\ m_memadr' = IF m_memadr = MemRange - 1 THEN 0 ELSE m_memadr + 1
          /\ HostRead(5) /\ MemoryAccess =>
               /\ read_ret' = read_byte(wave_ram, m_memadr)
               /\ m_memadr' = IF m_memadr = MemRange - 1 THEN 0 ELSE m_memadr + 1]_vars

\* The pointer has gone from 0x3fffff to 0 on an access of register 6 that
\* followed another one.
C37_Witness ==
    /\ m_memadr = 0
    /\ m_port_C = 6
    /\ host_count >= 2
    /\ host_access[1] = 5
    /\ m_pcmregs[3] = 63
    /\ m_pcmregs[4] = 255
    /\ m_pcmregs[5] = 254

\* The latches, the FM registers, the one-shot status bit and the busy timer
\* stay as they are.
HostStateKept ==
    UNCHANGED <<m_port_AB, m_lastport, m_port_C, m_next_status_id, m_fm, m_timer_busy>>

\* The registers the switch of C_w has no case for, 0xfa .. 0xff.
UnmappedRegs == 250 .. 255

\* A byte is being written through offset 5 to a register C_w does not decode,
\* with NEW2 set.
UnmappedWrite == HostWrite(5) /\ new2flag(m_fm) # 0 /\ m_port_C \in UnmappedRegs

\* A write or read at offset 6 or 7 changes nothing of the chip, and the read
\* returns 0.
UnexpectedOffsetInert ==
    /\ HostWrite(6) \/ HostWrite(7) => PcmStateKept /\ HostStateKept /\ UNCHANGED read_ret
    /\ HostRead(6) \/ HostRead(7) => PcmStateKept /\ HostStateKept /\ read_ret' = 0

\* C32 as stated: a write or read at offset 6 or 7, and a write to one of the
\* PCM registers 0xfa .. 0xff, alter neither the register file, the voices,
\* the pointers nor the busy timer.
C32_UnmappedAccessAltersNothing ==
    [][/\ UnexpectedOffsetInert
       /\ UnmappedWrite => PcmStateKept /\ BusyKept]_vars

\* C32: a write or read at offset 6 or 7 alters nothing; a write to one of the
\* PCM registers 0xfa .. 0xff stores the byte in the register file at that
\* register and starts the busy timer of a PCM write, after the stream update
\* every PCM write makes, and alters no other register, no pointer, no mixing
\* level, no wave memory and no latch.
C32_UnmappedWriteOnlyStored ==
    [][/\ UnexpectedOffsetInert
       /\ UnmappedWrite =>
             /\ m_pcmregs' = [m_pcmregs EXCEPT ![m_port_C] = HostData]
             /\ m_timer_busy' = 88
             /\ m_fm' = [m_fm EXCEPT !.busy = TRUE]
             /\ m_slots' = streamed(strm_samples' - strm_samples)
             /\ UNCHANGED <<m_wavetblhdr, m_memmode, m_memadr, m_fm_l, m_fm_r, m_pcm_l,
                            m_pcm_r, status_LD, wave_ram, m_port_AB, m_lastport, m_port_C,
                            m_next_status_id>>]_vars

\* The byte 0xff has been written to register 0xfa with NEW2 set: it is in
\* the register file and the busy timer of a PCM write is running.
C32_Witness ==
    /\ last_op = "write"
    /\ host_access = <<5, 255>>
    /\ new2flag(m_fm) # 0
    /\ m_port_C = 250
    /\ m_pcmregs[250] = 255
    /\ m_timer_busy = 88
    /\ m_fm.busy

\* Bit 1 of a status byte.
IdBit(ret) == (ret \div 2) % 2

\* A byte is being written to an FM data port, offset 1 or 3.
FmDataWrite == HostWrite(1) \/ HostWrite(3)

\* The write being made turns NEW2 from 0 to 1.
New2TurnedOn == new2flag(m_fm) = 0 /\ new2flag(m_fm') # 0

\* An FM data write arms the one-shot exactly when it turns NEW2 from 0 to 1,
\* and nothing but such a write and a status read changes it.
StatusIdArmed ==
    /\ FmDataWrite /\ New2TurnedOn => m_next_status_id'
    /\ FmDataWrite /\ ~New2TurnedOn => UNCHANGED m_next_status_id
    /\ ~FmDataWrite /\ ~HostRead(0) => UNCHANGED m_next_status_id

\* A status read made while NEW2 is set returns bit 1 set when the one-shot is
\* armed, and the status bit STATUS_LD there when it is not; it disarms the
\* one-shot.
StatusIdReported ==
    HostRead(0) /\ new2flag(m_fm) # 0 =>
        /\ IdBit(read_ret') = IF m_next_status_id \/ status_LD THEN 1 ELSE 0
        /\ ~m_next_status_id'

====
